---- MODULE Spec2Model ----
(***************************************************************************)
(* Model of the xrpl-data-mcp server (src/unnamed/part_001): the currency  *)
(* normalizer, the upstream adapter, the soft-fetch helper, the freshness  *)
(* probe and the twelve composite tool handlers.                           *)
(*                                                                         *)
(* Strings are sequences of Unicode code points, byte strings sequences of *)
(* 0..255.  An async handler is a coroutine: it runs from its entry to its *)
(* first await, and from the completion of the awaited upstream request to *)
(* its next await or to its return.                                        *)
(***************************************************************************)
EXTENDS Integers, Sequences, FiniteSets, TLC

\* ------------------------------------------------------------------------
\* Bounds of the model
\* ------------------------------------------------------------------------
NumInv == 2
MaxIdx == 1
MaxRows == 1
MaxShort == 3
MaxAffix == 1
MaxList == 2
MaxDepth == 2

\* ------------------------------------------------------------------------
\* Program constants
\* ------------------------------------------------------------------------
CurrencyBytes == 20
CurrencyHexLen == 40
IsoLen == 3
IsoPadLen == 34
TrustlineLimit == 250
OwnerCountLimit == 1000
ReportWindow == 30

\* ------------------------------------------------------------------------
\* Strings (JavaScript string operations used by the normalizer)
\* ------------------------------------------------------------------------
RECURSIVE Rep(_, _)
Rep(c, n) == IF n <= 0 THEN <<>> ELSE <<c>> \o Rep(c, n - 1)

\* White space removed by String.prototype.trim (the ASCII part and NBSP).
IsWhiteSpace(c) == c \in {9, 10, 11, 12, 13, 32, 160}

RECURSIVE TrimStart(_)
TrimStart(s) ==
  IF s # <<>> /\ IsWhiteSpace(Head(s)) THEN TrimStart(Tail(s)) ELSE s

RECURSIVE TrimEnd(_)
TrimEnd(s) ==
  IF s # <<>> /\ IsWhiteSpace(s[Len(s)]) THEN TrimEnd(SubSeq(s, 1, Len(s) - 1)) ELSE s

Trim(s) == TrimEnd(TrimStart(s))

IsDigit(c) == c \in 48..57
IsUpper(c) == c \in 65..90
IsLower(c) == c \in 97..122
IsHexChar(c) == IsDigit(c) \/ c \in 65..70 \/ c \in 97..102
IsAlnum(c) == IsDigit(c) \/ IsUpper(c) \/ IsLower(c)

\* String.prototype.toUpperCase on the code points the model uses: ASCII and
\* Latin-1 lower-case letters move down by 32, everything else is unchanged.
UpperChar(c) ==
  IF IsLower(c) \/ (c \in 224..254 /\ c # 247) THEN c - 32 ELSE c

ToUpperCase(s) == [k \in 1..Len(s) |-> UpperChar(s[k])]

\* Buffer.from(s, "utf8") for code points of the basic multilingual plane.
Utf8Char(c) ==
  IF c < 128 THEN <<c>>
  ELSE IF c < 2048 THEN <<192 + (c \div 64), 128 + (c % 64)>>
  ELSE <<224 + (c \div 4096), 128 + ((c \div 64) % 64), 128 + (c % 64)>>

RECURSIVE Utf8(_)
Utf8(s) == IF s = <<>> THEN <<>> ELSE Utf8Char(Head(s)) \o Utf8(Tail(s))

\* Buffer.from(s, "ascii"): one byte per UTF-16 unit, its low eight bits.
AsciiBytes(s) == [k \in 1..Len(s) |-> s[k] % 256]

\* Buffer.prototype.toString("hex"): two lower-case digits per byte.
HexDigit(d) == IF d < 10 THEN 48 + d ELSE 87 + d
HexByte(b) == <<HexDigit(b \div 16), HexDigit(b % 16)>>
RECURSIVE ToHex(_)
ToHex(bytes) == IF bytes = <<>> THEN <<>> ELSE HexByte(Head(bytes)) \o ToHex(Tail(bytes))

\* The absent value (null) of the normalizer; the empty string is falsy too.
NoString == <<>>

\* /^[A-Fa-f0-9]{40}$/ and /^[A-Za-z0-9]{3}$/
\* Variant: the pattern lacks the lower-case range, /^[A-F0-9]{40}$/.
MatchesHex40UpperOnly(s) ==
  Len(s) = CurrencyHexLen /\ \A k \in 1..Len(s) : IsDigit(s[k]) \/ (IsUpper(s[k]) /\ s[k] <= 70)
MatchesHex40(s) == Len(s) = CurrencyHexLen /\ \A k \in 1..Len(s) : IsHexChar(s[k])
MatchesIso3(s) == Len(s) = IsoLen /\ \A k \in 1..Len(s) : IsAlnum(s[k])

\* Variant: a 40-digit code is passed through without upper-casing.
currencyTo160HexKeepCase(currency) ==
  LET raw == Trim(currency) IN
  IF MatchesHex40(raw) THEN raw
  ELSE IF MatchesIso3(raw)
    THEN ToUpperCase(ToHex(AsciiBytes(ToUpperCase(raw)))) \o Rep(48, IsoPadLen)
  ELSE LET bytes == Utf8(raw) IN
    IF Len(bytes) > CurrencyBytes THEN NoString
    ELSE ToUpperCase(ToHex(bytes \o Rep(0, CurrencyBytes - Len(bytes))))

\* Variant: the length limit is applied to raw.length (UTF-16 units) and not
\* to the encoded byte length.
currencyTo160HexByChars(currency) ==
  LET raw == Trim(currency) IN
  IF MatchesHex40(raw) THEN ToUpperCase(raw)
  ELSE IF MatchesIso3(raw)
    THEN ToUpperCase(ToHex(AsciiBytes(ToUpperCase(raw)))) \o Rep(48, IsoPadLen)
  ELSE LET bytes == Utf8(raw) IN
    IF Len(raw) > CurrencyBytes THEN NoString
    ELSE ToUpperCase(ToHex(bytes \o Rep(0, CurrencyBytes - Len(bytes))))

currencyTo160Hex(currency) ==
  LET raw == Trim(currency) IN
  IF MatchesHex40(raw) THEN ToUpperCase(raw)
  ELSE IF MatchesIso3(raw)
    THEN ToUpperCase(ToHex(AsciiBytes(ToUpperCase(raw)))) \o Rep(48, IsoPadLen)
  ELSE LET bytes == Utf8(raw) IN
    IF Len(bytes) > CurrencyBytes THEN NoString
    ELSE ToUpperCase(ToHex(bytes \o Rep(0, CurrencyBytes - Len(bytes))))

tokenIdFromIssuerCurrency(issuer, currency) ==
  LET currencyHex == currencyTo160Hex(currency) IN
  IF currencyHex = NoString THEN NoString
  ELSE currencyHex \o <<46>> \o issuer

\* ------------------------------------------------------------------------
\* JSON values, as far as the handlers look into them
\* ------------------------------------------------------------------------
\* An optional number is <<>> (null) or <<n>>.
NoNum == <<>>
Num(n) == <<n>>

\* A field of a JSON object as the handler reads it: missing (undefined),
\* null, or a number.
Field(t, n) == [t |-> t, n |-> n]
Missing == Field("undefined", 0)
NullField == Field("null", 0)
NumField(n) == Field("number", n)
\* A string that is not a number ("abc"), and a JSON number beyond the range
\* of a double (1e999), which JSON.parse reads as Infinity.
TextField == Field("string", 0)
HugeField == Field("huge", 0)

\* Number(value), kept when finite: Number(undefined) is NaN, Number(null) is 0.
toNum(value) ==
  IF value.t = "number" THEN Num(value.n)
  ELSE IF value.t = "null" THEN Num(0)
  ELSE NoNum

\* JavaScript numbers: a finite value n / d, NaN, or an infinity of sign n.
JsNum(k, n, d) == [k |-> k, n |-> n, d |-> d]
Fin(n) == JsNum("fin", n, 1)
NaN == JsNum("nan", 0, 1)
Infinity(sign) == JsNum("inf", sign, 1)
Sign(n) == IF n < 0 THEN -1 ELSE 1

\* Number(x || 0): undefined, null and 0 give 0, "abc" gives NaN.
NumberOr0(x) ==
  CASE x.t = "number" -> Fin(x.n)
    [] x.t = "string" -> NaN
    [] x.t = "huge" -> Infinity(1)
    [] OTHER -> Fin(0)

\* a + b and a * b on integers, NaN and the infinities.
JsAdd(a, b) ==
  IF a.k = "nan" \/ b.k = "nan" THEN NaN
  ELSE IF a.k = "inf" /\ b.k = "inf" THEN (IF a.n = b.n THEN a ELSE NaN)
  ELSE IF a.k = "inf" THEN a
  ELSE IF b.k = "inf" THEN b
  ELSE Fin(a.n + b.n)

JsMul(a, b) ==
  IF a.k = "nan" \/ b.k = "nan" THEN NaN
  ELSE IF a.k = "inf" \/ b.k = "inf" THEN
    (IF a.n = 0 \/ b.n = 0 THEN NaN ELSE Infinity(Sign(a.n) * Sign(b.n)))
  ELSE Fin(a.n * b.n)

\* a / b for integers, NaN and the infinities (a finite quotient is kept as
\* the fraction n / d with d > 0).
JsDiv(a, b) ==
  IF a.k = "nan" \/ b.k = "nan" THEN NaN
  ELSE IF a.k = "inf" THEN (IF b.k = "inf" THEN NaN ELSE Infinity(a.n * Sign(b.n)))
  ELSE IF b.k = "inf" THEN Fin(0)
  ELSE IF b.n = 0 THEN (IF a.n = 0 THEN NaN ELSE Infinity(Sign(a.n)))
  ELSE JsNum("fin", a.n * Sign(b.n), b.n * Sign(b.n))

\* a > b for b an integer: false for NaN.
JsGreater(a, b) ==
  CASE a.k = "fin" -> a.n > b * a.d
    [] a.k = "inf" -> a.n > 0
    [] OTHER -> FALSE

\* JSON.stringify writes NaN and the infinities as null.
JsonNumber(x) == IF x # <<>> /\ x[1].k # "fin" THEN <<>> ELSE x

\* tx.TransactionType: missing, null, a string, or a number (s is then its
\* decimal text).
TypeValue(t, s) == [t |-> t, s |-> s]
NoType == TypeValue("undefined", <<>>)
NullType == TypeValue("null", <<>>)
TypeName(s) == TypeValue("string", s)

\* An entry of a response list, as far as a handler computes with it.
Entry(price, amount, signed, validations_signed, missed, validations_missed) ==
  [price |-> price, amount |-> amount,
   signed |-> signed, validations_signed |-> validations_signed,
   missed |-> missed, validations_missed |-> validations_missed]
\* A trade of the LOS sample, and a report of a validator's history.
Row(price, amount) == Entry(price, amount, Missing, Missing, Missing, Missing)
Report(signed, validations_signed, missed, validations_missed) ==
  Entry(Missing, Missing, signed, validations_signed, missed, validations_missed)
UnitRow == Row(NumField(1), NumField(1))

\* A value received from upstream (or null):
\*   kind  "obj" a JSON object, "text" a non-empty raw text, "null"
\*         JavaScript null;
\*   idx   the ledger-index field the reading handler looks up in it;
\*   rows  the length of the list the reading handler takes from it
\*         (transactions, offers, lines, validators, reports);
\*   bad   that list (for tx: meta.AffectedNodes) holds a null entry, so
\*         that reading a property of the entry raises a TypeError;
\*   list  the price and amount of the entries of that list, when it is
\*         short enough to be written out;
\*   OwnerCount, Flags  the fields of account_data;
\*   TransactionType  the field of the transaction of a tx response;
\*   depth the number of objects that enclose the object holding the
\*         ledger-index field: 0 when the field is a key of the response
\*         itself, 1 when it is a key of a direct value, and so on.
Val(kind, idx, rows, bad) ==
  [kind |-> kind, idx |-> idx, rows |-> rows, bad |-> bad,
   list |-> IF rows <= MaxList THEN [k \in 1..rows |-> UnitRow] ELSE <<>>,
   OwnerCount |-> Missing, Flags |-> Missing,
   depth |-> 0,
   TransactionType |-> NoType]
\* The object v wrapped in d objects: {"a": {"b": v}} for d = 2.
Nested(v, d) == [v EXCEPT !.depth = d]
\* Object.values(value): the one nested object of a wrapper.
Inner(value) == [value EXCEPT !.depth = @ - 1]
WithList(v, list) == [v EXCEPT !.rows = Len(list), !.list = list]
WithAccountData(v, ownerCount, flags) == [v EXCEPT !.OwnerCount = ownerCount, !.Flags = flags]
WithType(v, type) == [v EXCEPT !.TransactionType = type]
Null == Val("null", Missing, 0, FALSE)
SomeText == Val("text", Missing, 0, FALSE)
\* The empty string, and a JSON scalar (a number such as 123).
EmptyText == Val("empty", Missing, 0, FALSE)
Scalar == Val("scalar", Missing, 0, FALSE)

\* JavaScript truthiness of a value: null and the empty string are falsy.
Truthy(v) == v.kind \in {"obj", "text", "scalar"}

IsObject(v) == v.kind = "obj"

\* A payload that is not an object is replaced by the empty object {}.
EmptyObj == Val("obj", Missing, 0, FALSE)
xrplResultEnvelope(payload) == IF ~Truthy(payload) \/ ~IsObject(payload) THEN EmptyObj ELSE payload

\* xrplResultEnvelope followed by the toNum lookup of the index field.
IdxOf(v) ==
  LET r == xrplResultEnvelope(v) IN IF r.depth = 0 THEN toNum(r.idx) ELSE NoNum

\* Array.isArray(x?.list) ? x.list : []  -- the length of that list.
RowsOf(v) == IF IsObject(v) THEN v.rows ELSE 0

\* for (const row of list) { row.field ... } raises on a null entry.
RaisesOn(v) == IsObject(v) /\ v.rows > 0 /\ v.bad

\* The keys are looked up in the value itself, then the search descends
\* into every nested object.
RECURSIVE pickFirstNumber(_)
pickFirstNumber(value) ==
  IF ~Truthy(value) \/ ~IsObject(value) THEN NoNum
  ELSE IF value.depth = 0
    THEN (IF value.idx.t # "undefined" THEN toNum(value.idx) ELSE NoNum)
  ELSE pickFirstNumber(Inner(value))

\* ------------------------------------------------------------------------
\* Upstream responses and the upstream adapter
\* ------------------------------------------------------------------------
\* A message is the text of an Error.
Msg(text, status, body) ==
  [text |-> text, status |-> status, statusText |-> "", body |-> body]
FetchFailed == Msg("fetch failed", 0, Null)
TypeErrorMsg == Msg("TypeError: Cannot read properties of null", 0, Null)
NormalizeMsg == Msg("Unable to normalize currency to XRPL 160-bit code.", 0, Null)

\* What the network gives back for one request: no response at all (net),
\* or a status and a body.
\* The status text a server sends with a status code.
ReasonPhrase(status) ==
  CASE status = 200 -> "OK"
    [] status = 300 -> "Multiple Choices"
    [] status = 404 -> "Not Found"
    [] status = 503 -> "Service Unavailable"
    [] OTHER -> ""

\* The text of a response body, as far as the adapter looks at it:
\*   first  its first character: "{", "[", "other", or "" for an empty text;
\*   json   <<v>> when JSON.parse accepts the text and yields v, <<>> when
\*          it throws a SyntaxError.
Text(first, json) == [first |-> first, json |-> json]

\* "application/json", as code points
ApplicationJson ==
  <<97, 112, 112, 108, 105, 99, 97, 116, 105, 111, 110, 47, 106, 115, 111, 110>>
\* "text/plain"
TextPlain == <<116, 101, 120, 116, 47, 112, 108, 97, 105, 110>>

\* A response with a content-type header and a body text; body is the value
\* the text stands for (the JSON value when it is JSON, else the string).
Response(net, status, contentType, text) ==
  [net |-> net, status |-> status, statusText |-> ReasonPhrase(status),
   contentType |-> contentType, text |-> text,
   body |-> IF text.json # <<>> THEN text.json[1]
            ELSE IF text.first = "" THEN EmptyText ELSE SomeText]

\* The response a server sends for the value body: an object as its JSON
\* text, null as an empty JSON body, a message as plain text.
Resp(net, status, body) ==
  [Response(net, status,
            IF body.kind = "text" THEN TextPlain ELSE ApplicationJson,
            IF body.kind = "obj" THEN Text("{", <<body>>)
            ELSE IF body.kind = "null" THEN Text("", <<>>)
            ELSE Text("other", <<>>))
   EXCEPT !.body = body]
NetErr == Resp(TRUE, 0, Null)

\* The completion of an awaited call: a thrown Error or a value.
Threw(msg) == [threw |-> TRUE, msg |-> msg, val |-> Null]
Ok(v) == [threw |-> FALSE, msg |-> FetchFailed, val |-> v]

\* Variant: only status 200 counts as success.
ResponseOkOnly200(resp) == resp.status = 200

ResponseOk(resp) == resp.status \in 200..299

\* String.prototype.includes
Contains(s, sub) ==
  \E k \in 0..(Len(s) - Len(sub)) : SubSeq(s, k + 1, k + Len(sub)) = sub

\* let body = bodyText; if (contentType.includes("application/json") ||
\* bodyText.startsWith("{") || bodyText.startsWith("[")) { try { body =
\* bodyText ? JSON.parse(bodyText) : null } catch { body = bodyText } }
parseBody(contentType, bodyText) ==
  LET raw == IF bodyText.first = "" THEN EmptyText ELSE SomeText IN
  IF Contains(contentType, ApplicationJson) \/ bodyText.first \in {"{", "["}
    THEN (IF bodyText.first = "" THEN Null
          ELSE IF bodyText.json # <<>> THEN bodyText.json[1]
          ELSE raw)
  ELSE raw

\* `HTTP ${status} ${statusText}: ${JSON.stringify({status, statusText, body})}`
HttpError(resp) ==
  [Msg("HTTP", resp.status, parseBody(resp.contentType, resp.text))
     EXCEPT !.statusText = resp.statusText]

fetchWithParse(resp) ==
  IF resp.net THEN Threw(FetchFailed)
  ELSE IF ~ResponseOk(resp) THEN Threw(HttpError(resp))
  ELSE Ok(parseBody(resp.contentType, resp.text))

callLos(resp) == fetchWithParse(resp)

xrplRpc(resp) == fetchWithParse(resp)

\* Variant: the soft call lets the failure through.
tryLosRethrows(resp) == callLos(resp)

\* Soft LOS call: any failure becomes null.
tryLos(resp) ==
  LET r == callLos(resp) IN IF r.threw THEN Ok(Null) ELSE r

\* try { amm = await xrplRpc("amm_info", ...) } catch { amm = null }
tryAmmInfo(resp) ==
  LET r == xrplRpc(resp) IN IF r.threw THEN Ok(Null) ELSE r

\* ------------------------------------------------------------------------
\* Tool results
\* ------------------------------------------------------------------------
\* JSON.stringify(data, null, 2): the text keeps the fields; a number that is
\* not finite is written as null.
JsonStringify(e) ==
  IF "vwap" \in DOMAIN e.data THEN [e EXCEPT !.data.vwap = JsonNumber(@)]
  ELSE IF "metrics" \in DOMAIN e.data
    THEN [e EXCEPT !.data.metrics = [f \in DOMAIN e.data.metrics |-> JsonNumber(e.data.metrics[f])]]
  ELSE e

toolResult(data) == [content |-> JsonStringify(data)]

toolError(msg) == [isError |-> TRUE, content |-> msg]

Now == "now"

Source(system, method) == [system |-> system, method |-> method, at |-> Now]

\* Variant: the builder leaves the warnings out when there are none.
envelopeOmitsEmptyWarnings(data, sources, asOfLedger, warnings) ==
  IF warnings = <<>>
    THEN [data |-> data,
          sources |-> sources,
          freshness |-> [asOfLedger |-> asOfLedger, asOfTime |-> Now]]
    ELSE [data |-> data,
          sources |-> sources,
          freshness |-> [asOfLedger |-> asOfLedger, asOfTime |-> Now],
          warnings |-> warnings]

envelope(data, sources, asOfLedger, warnings) ==
  [data |-> data,
   sources |-> sources,
   freshness |-> [asOfLedger |-> asOfLedger, asOfTime |-> Now],
   warnings |-> warnings]

toToolEnvelope(data, sources, asOfLedger, warnings) ==
  toolResult(envelope(data, sources, asOfLedger, warnings))

\* ------------------------------------------------------------------------
\* Upstream calls of the composite handlers
\* ------------------------------------------------------------------------
Call(sys, method) == [sys |-> sys, method |-> method]

RpcServerInfo == Call("rippled", "server_info")
RpcLedger == Call("rippled", "ledger")
RpcTx == Call("rippled", "tx")
RpcAccountInfo == Call("rippled", "account_info")
RpcAccountLines == Call("rippled", "account_lines")
RpcAccountTx == Call("rippled", "account_tx")
RpcBookOffers == Call("rippled", "book_offers")
RpcAmmInfo == Call("rippled", "amm_info")
LosLedgerByIndex == Call("LOS", "/ledger/{index}")
LosLedgerByHash == Call("LOS", "/ledger/{hash}")
LosTransactions == Call("LOS", "/transactions")
LosToken == Call("LOS", "/tokens/{tokenID}")
VhsValidators == Call("VHS", "/v1/network/validators")
VhsValidator == Call("VHS", "/v1/network/validator/{pubkey}")
VhsReports == Call("VHS", "/v1/network/validator/{pubkey}/reports")
VhsAmendmentsInfo == Call("VHS", "/v1/network/amendments/info")
VhsAmendmentsVote == Call("VHS", "/v1/network/amendments/vote/{network}")

candidates ==
  << Call("LOS", "/ingestion-watermark"),
     Call("LOS", "/ingestion/status"),
     Call("LOS", "/status"),
     Call("LOS", "/health"),
     Call("LOS", "/meta") >>

CandidateIndex(call) == CHOOSE k \in 1..Len(candidates) : candidates[k] = call

\* ------------------------------------------------------------------------
\* Handler coroutines
\* ------------------------------------------------------------------------
\* The local variables of one handler activation: the warnings array and the
\* awaited values bound so far.
Local(warnings, vals) == [warnings |-> warnings, vals |-> vals]
NewLocal == Local(<<>>, <<>>)

Bind(l, call, v) == Local(l.warnings, Append(l.vals, [call |-> call, val |-> v]))

Bound(l, call) ==
  LET ks == {k \in 1..Len(l.vals) : l.vals[k].call = call} IN
  IF ks = {} THEN Null ELSE l.vals[CHOOSE k \in ks : TRUE].val

Push(warnings, cond, text) == IF cond THEN Append(warnings, text) ELSE warnings

\* One run of a handler between two suspension points: the requests it
\* issues before suspending, its locals, and the result if it returned.
Await(call, l) == [issue |-> <<call>>, local |-> l, ret |-> <<>>]
Return(result) == [issue |-> <<>>, local |-> NewLocal, ret |-> <<result>>]

\* The arguments of an invocation (fields a tool does not take are unused).
Args(currency, ledger_hash, network, input) ==
  [currency |-> currency, ledger_hash |-> ledger_hash, network |-> network, input |-> input]

\* The issuer address every token request of the model uses ("rAAAAAAAAA").
Issuer == <<114>> \o Rep(65, 9)

\* An optional string is <<>> (null) or <<s>>.
NoPath == <<>>

\* --- losFreshnessProbe -------------------------------------------------
\* One iteration of the loop over the candidates, for the payload of
\* candidate k: the probe returns, or goes on to candidate k + 1.
ProbeReturn(latest, path) == [returned |-> TRUE, latestIndexedLedger |-> latest, sourcePath |-> path]
ProbeContinue == [returned |-> FALSE, latestIndexedLedger |-> NoNum, sourcePath |-> NoPath]

losFreshnessProbe(k, payload) ==
  IF ~Truthy(payload) THEN
    (IF k < Len(candidates) THEN ProbeContinue ELSE ProbeReturn(NoNum, NoPath))
  ELSE LET latestIndexedLedger == pickFirstNumber(payload) IN
    IF latestIndexedLedger # NoNum
      THEN ProbeReturn(latestIndexedLedger, <<candidates[k].method>>)
    ELSE IF k < Len(candidates) THEN ProbeContinue
    ELSE ProbeReturn(NoNum, NoPath)

\* --- network_overview --------------------------------------------------
network_overview_await(call, resp) ==
  IF call = RpcServerInfo THEN xrplRpc(resp) ELSE tryLos(resp)

network_overview_finish(l, losFreshness) ==
  LET validatedLedgerIndex == IdxOf(Bound(l, RpcServerInfo))
      lag == IF validatedLedgerIndex # NoNum /\ validatedLedgerIndex # Num(0)
                /\ losFreshness.latestIndexedLedger # NoNum
             THEN Num(validatedLedgerIndex[1] - losFreshness.latestIndexedLedger[1])
             ELSE NoNum
      warnings == Push(l.warnings, losFreshness.latestIndexedLedger = NoNum,
                       "LOS ingestion watermark endpoint was not detected from known paths.")
  IN Return(toToolEnvelope(
       [validatedLedgerIndex |-> validatedLedgerIndex,
        ledgerLagVsLos |-> lag,
        losLatestIndexedLedger |-> losFreshness.latestIndexedLedger,
        losSourcePath |-> losFreshness.sourcePath],
       << Source("rippled", "server_info"),
          Source("LOS", "ingestion watermark probe") >>,
       validatedLedgerIndex,
       warnings))

network_overview_cont(a, l, call, v) ==
  IF call = RpcServerInfo THEN Await(candidates[1], Bind(l, call, v))
  ELSE LET k == CandidateIndex(call)
           probe == losFreshnessProbe(k, v) IN
    IF probe.returned THEN network_overview_finish(l, probe)
    ELSE Await(candidates[k + 1], l)

\* --- ledger_summary ----------------------------------------------------
ledger_summary_await(call, resp) ==
  IF call = RpcLedger THEN xrplRpc(resp) ELSE tryLos(resp)

ledger_summary_finish(l, losArtifacts) ==
  LET canonicalIndex == IdxOf(Bound(l, RpcLedger))
      warnings == Push(l.warnings, ~Truthy(losArtifacts),
                       "No LOS artifact endpoint matched /ledger/{index|hash}.")
  IN Return(toToolEnvelope(
       [ledgerIndex |-> canonicalIndex, losArtifacts |-> losArtifacts],
       << Source("rippled", "ledger"),
          Source("LOS", "GET /ledger/{index|hash} probe") >>,
       canonicalIndex,
       warnings))

ledger_summary_cont(a, l, call, v) ==
  IF call = RpcLedger THEN
    LET l1 == Bind(l, call, v)
        canonicalIndex == IdxOf(v) IN
    IF canonicalIndex # NoNum THEN Await(LosLedgerByIndex, l1)
    ELSE IF a.ledger_hash THEN Await(LosLedgerByHash, l1)
    ELSE ledger_summary_finish(l1, Null)
  ELSE ledger_summary_finish(l, v)

\* --- tx_explain --------------------------------------------------------
tx_explain_await(call, resp) ==
  IF call = LosTransactions THEN tryLos(resp) ELSE xrplRpc(resp)

\* losTx.transactions[0] when the list is a non-empty array: an object, or
\* null when the entry is null.
FirstRow(v) == IF v.bad THEN Null ELSE EmptyObj

\* "OfferCreate", "AMMSwap", "OfferCancel", "Payment", "AMM"
OfferCreate == <<79, 102, 102, 101, 114, 67, 114, 101, 97, 116, 101>>
AMMSwap == <<65, 77, 77, 83, 119, 97, 112>>
OfferCancel == <<79, 102, 102, 101, 114, 67, 97, 110, 99, 101, 108>>
Payment == <<80, 97, 121, 109, 101, 110, 116>>
AMM == <<65, 77, 77>>

\* tx?.TransactionType ?? null
transactionTypeOf(tx) ==
  IF tx.TransactionType.t = "undefined" THEN NullType ELSE tx.TransactionType

StartsWith(s, prefix) ==
  Len(s) >= Len(prefix) /\ SubSeq(s, 1, Len(prefix)) = prefix

isDexTrade(transactionType) ==
  \/ transactionType = TypeName(OfferCreate)
  \/ transactionType = TypeName(AMMSwap)
  \/ transactionType = TypeName(OfferCancel)

isTransfer(transactionType) == transactionType = TypeName(Payment)

\* Variant: the name holds "AMM" anywhere.
isAmmRelatedAnywhere(transactionType) ==
  LET name == IF transactionType.t \in {"string", "number"} THEN transactionType.s ELSE <<>> IN
  \E k \in 0..Len(name) : StartsWith(SubSeq(name, k + 1, Len(name)), AMM)

\* String(transactionType || "").startsWith("AMM")
isAmmRelated(transactionType) ==
  LET name == IF transactionType.t \in {"string", "number"} THEN transactionType.s ELSE <<>> IN
  StartsWith(name, AMM)

classification(transactionType) ==
  [isDexTrade |-> isDexTrade(transactionType),
   isTransfer |-> isTransfer(transactionType),
   isAmmRelated |-> isAmmRelated(transactionType)]

tx_explain_cont(a, l, call, v) ==
  IF call = LosTransactions THEN
    LET losTx == IF RowsOf(v) > 0 THEN FirstRow(v) ELSE v IN
    Await(RpcTx, Bind(l, call, losTx))
  ELSE
    LET losTx == Bound(l, LosTransactions)
        warnings == Push(l.warnings, ~Truthy(losTx),
                         "LOS enriched transaction record not found; classification is rippled-derived.")
    IN IF RaisesOn(v) THEN Return(toolError(TypeErrorMsg))
       ELSE Return(toToolEnvelope(
              [canonical |-> v,
               classification |-> classification(transactionTypeOf(xrplResultEnvelope(v))),
               losEnrichment |-> losTx],
              << Source("LOS", "GET /transactions"), Source("rippled", "tx") >>,
              IdxOf(v),
              warnings))

\* --- account_overview --------------------------------------------------
account_overview_await(call, resp) == xrplRpc(resp)

\* Variant: the two later lookups are started together (Promise.all).
account_overview_cont_together(a, l, call, v) ==
  IF call = RpcAccountInfo
    THEN [issue |-> <<RpcAccountLines, RpcAccountTx>>, local |-> Bind(l, call, v), ret |-> <<>>]
  ELSE IF call = RpcAccountLines THEN [issue |-> <<>>, local |-> Bind(l, call, v), ret |-> <<>>]
  ELSE Return(toToolEnvelope(
         [accountData |-> Bound(l, RpcAccountInfo),
          trustlineCount |-> RowsOf(Bound(l, RpcAccountLines)),
          txCount |-> RowsOf(v)],
         << Source("rippled", "account_info"),
            Source("rippled", "account_lines"),
            Source("rippled", "account_tx") >>,
         IdxOf(Bound(l, RpcAccountInfo)),
         l.warnings))

\* Variant: the trustline test is >= 250.
riskIndicatorsAtLimit(trustlineCount, accountData) ==
  Push(Push(Push(<<>>,
    trustlineCount >= TrustlineLimit,
      "High trustline count may indicate hub/exchange behavior."),
    JsGreater(NumberOr0(accountData.OwnerCount), OwnerCountLimit),
      "High owner count; reserve pressure likely high."),
    NumberOr0(accountData.Flags) # Fin(0),
      "Account has non-zero flags; inspect issuer permissions.")

riskIndicators(trustlineCount, accountData) ==
  Push(Push(Push(<<>>,
    trustlineCount > TrustlineLimit,
      "High trustline count may indicate hub/exchange behavior."),
    JsGreater(NumberOr0(accountData.OwnerCount), OwnerCountLimit),
      "High owner count; reserve pressure likely high."),
    NumberOr0(accountData.Flags) # Fin(0),
      "Account has non-zero flags; inspect issuer permissions.")

account_overview_cont(a, l, call, v) ==
  IF call = RpcAccountInfo THEN Await(RpcAccountLines, Bind(l, call, v))
  ELSE IF call = RpcAccountLines THEN Await(RpcAccountTx, Bind(l, call, v))
  ELSE
    LET infoRaw == Bound(l, RpcAccountInfo)
        linesRaw == Bound(l, RpcAccountLines)
        txRaw == v
        accountData == xrplResultEnvelope(infoRaw)
        trustlineCount == RowsOf(linesRaw)
    IN IF RaisesOn(linesRaw) \/ RaisesOn(txRaw) THEN Return(toolError(TypeErrorMsg))
       ELSE Return(toToolEnvelope(
              [accountData |-> infoRaw,
               trustlineCount |-> trustlineCount,
               txCount |-> RowsOf(txRaw),
               riskIndicators |-> riskIndicators(trustlineCount, accountData)],
              << Source("rippled", "account_info"),
                 Source("rippled", "account_lines"),
                 Source("rippled", "account_tx") >>,
              IdxOf(infoRaw),
              l.warnings))

\* --- token_overview ----------------------------------------------------
\* Variant: the metadata request is sent before the token id is checked.
token_overview_start_lookupFirst(a) ==
  LET tokenID == tokenIdFromIssuerCurrency(Issuer, a.currency) IN
  IF tokenID = NoString
    THEN [issue |-> <<LosToken>>, local |-> NewLocal, ret |-> <<toolError(NormalizeMsg)>>]
  ELSE Await(LosToken, NewLocal)

token_overview_start(a) ==
  LET tokenID == tokenIdFromIssuerCurrency(Issuer, a.currency) IN
  IF tokenID = NoString THEN Return(toolError(NormalizeMsg))
  ELSE Await(LosToken, NewLocal)

token_overview_await(call, resp) ==
  IF call \in {LosToken, LosTransactions} THEN tryLos(resp)
  ELSE IF call = RpcBookOffers THEN xrplRpc(resp)
  ELSE tryAmmInfo(resp)

token_overview_cont(a, l, call, v) ==
  IF call = LosToken THEN Await(LosTransactions, Bind(l, call, v))
  ELSE IF call = LosTransactions THEN Await(RpcBookOffers, Bind(l, call, v))
  ELSE IF call = RpcBookOffers THEN Await(RpcAmmInfo, Bind(l, call, v))
  ELSE
    LET tokenMeta == Bound(l, LosToken)
        tokenTx == Bound(l, LosTransactions)
        book == Bound(l, RpcBookOffers)
        amm == v
        warnings == Push(l.warnings, ~Truthy(tokenMeta),
                         "LOS token metadata not found for normalized tokenID.")
    IN Return(toToolEnvelope(
         [tokenID |-> tokenIdFromIssuerCurrency(Issuer, a.currency),
          metadata |-> tokenMeta,
          hasBestAsk |-> RowsOf(xrplResultEnvelope(book)) > 0,
          amm |-> xrplResultEnvelope(amm),
          sample |-> tokenTx],
         << Source("LOS", "GET /tokens/{tokenID}"),
            Source("LOS", "GET /transactions"),
            Source("rippled", "book_offers"),
            Source("rippled", "amm_info") >>,
         IdxOf(book),
         warnings))

\* --- market_snapshot ---------------------------------------------------
market_snapshot_await(call, resp) ==
  IF call = RpcBookOffers THEN xrplRpc(resp)
  ELSE IF call = RpcAmmInfo THEN tryAmmInfo(resp)
  ELSE tryLos(resp)

\* Array.isArray(losTrades?.transactions) ? losTrades.transactions : []
recentTradesOf(losTrades) == IF IsObject(losTrades) THEN losTrades.list ELSE <<>>

RECURSIVE vwapNumerator(_)
vwapNumerator(trades) ==
  IF trades = <<>> THEN Fin(0)
  ELSE LET t == trades[Len(trades)] IN
    JsAdd(vwapNumerator(SubSeq(trades, 1, Len(trades) - 1)),
          JsMul(NumberOr0(t.price), NumberOr0(t.amount)))

RECURSIVE vwapDenominator(_)
vwapDenominator(trades) ==
  IF trades = <<>> THEN Fin(0)
  ELSE LET t == trades[Len(trades)] IN
    JsAdd(vwapDenominator(SubSeq(trades, 1, Len(trades) - 1)), NumberOr0(t.amount))

\* Variant: without a usable denominator the estimate is 0.
vwapOrZero(trades) ==
  IF JsGreater(vwapDenominator(trades), 0)
    THEN <<JsDiv(vwapNumerator(trades), vwapDenominator(trades))>>
  ELSE <<Fin(0)>>

vwap(trades) ==
  IF JsGreater(vwapDenominator(trades), 0)
    THEN <<JsDiv(vwapNumerator(trades), vwapDenominator(trades))>>
  ELSE <<>>

market_snapshot_cont(a, l, call, v) ==
  IF call = RpcBookOffers THEN Await(RpcAmmInfo, Bind(l, call, v))
  ELSE IF call = RpcAmmInfo THEN Await(LosTransactions, Bind(l, call, v))
  ELSE
    LET bookRaw == Bound(l, RpcBookOffers)
        ammRaw == Bound(l, RpcAmmInfo)
        losTrades == v
        warnings == Push(l.warnings, RowsOf(losTrades) = 0,
                         "No LOS trade samples returned for VWAP estimate.")
    IN IF RaisesOn(losTrades) THEN Return(toolError(TypeErrorMsg))
       ELSE Return(toToolEnvelope(
              [offerCount |-> RowsOf(xrplResultEnvelope(bookRaw)),
               amm |-> xrplResultEnvelope(ammRaw),
               tradeCount |-> RowsOf(losTrades),
               vwap |-> vwap(recentTradesOf(losTrades))],
              << Source("rippled", "book_offers"),
                 Source("rippled", "amm_info"),
                 Source("LOS", "GET /transactions?transactionType=dex-trade") >>,
              IdxOf(bookRaw),
              warnings))

\* --- amm_overview ------------------------------------------------------
amm_overview_await(call, resp) ==
  IF call = RpcAmmInfo THEN xrplRpc(resp) ELSE tryLos(resp)

amm_overview_cont(a, l, call, v) ==
  IF call = RpcAmmInfo THEN Await(LosTransactions, Bind(l, call, v))
  ELSE
    LET ammRaw == Bound(l, RpcAmmInfo)
        losSwaps == v
    IN IF RaisesOn(losSwaps) THEN Return(toolError(TypeErrorMsg))
       ELSE Return(toToolEnvelope(
              [amm |-> xrplResultEnvelope(ammRaw), swapCount |-> RowsOf(losSwaps)],
              << Source("rippled", "amm_info"),
                 Source("LOS", "GET /transactions?transactionType=dex-trade") >>,
              IdxOf(ammRaw),
              l.warnings))

\* --- validator_set_overview --------------------------------------------
validator_set_overview_await(call, resp) == fetchWithParse(resp)

validator_set_overview_cont(a, l, call, v) ==
  IF RaisesOn(v) THEN Return(toolError(TypeErrorMsg))
  ELSE Return(toToolEnvelope(
         [validatorCount |-> RowsOf(v)],
         << Source("VHS", "GET /v1/network/validators") >>,
         NoNum,
         l.warnings))

\* --- validator_health --------------------------------------------------
validator_health_await(call, resp) == fetchWithParse(resp)

\* Array.isArray(reports?.reports) ? reports.reports : ...
reportListOf(reports) == IF IsObject(reports) THEN reports.list ELSE <<>>

\* reportList.slice(-30)
recentOf(reportList) ==
  IF Len(reportList) > ReportWindow
    THEN SubSeq(reportList, Len(reportList) - ReportWindow + 1, Len(reportList))
  ELSE reportList

\* x || y on two fields: y when x is undefined, null or 0.
FieldTruthy(x) == x.t \in {"string", "huge"} \/ (x.t = "number" /\ x.n # 0)
OrElse(x, y) == IF FieldTruthy(x) THEN x ELSE y

\* recent.reduce((sum, r) => sum + Number(r.signed || r.validations_signed || 0), 0)
RECURSIVE signedOf(_)
signedOf(recent) ==
  IF recent = <<>> THEN Fin(0)
  ELSE LET r == recent[Len(recent)] IN
    JsAdd(signedOf(SubSeq(recent, 1, Len(recent) - 1)),
          NumberOr0(OrElse(r.signed, r.validations_signed)))

RECURSIVE missedOf(_)
missedOf(recent) ==
  IF recent = <<>> THEN Fin(0)
  ELSE LET r == recent[Len(recent)] IN
    JsAdd(missedOf(SubSeq(recent, 1, Len(recent) - 1)),
          NumberOr0(OrElse(r.missed, r.validations_missed)))

\* signed + missed > 0 ? signed / (signed + missed) : null
uptimeish(signed, missed) ==
  IF JsGreater(JsAdd(signed, missed), 0)
    THEN <<JsDiv(signed, JsAdd(signed, missed))>>
  ELSE <<>>

validator_health_cont(a, l, call, v) ==
  IF call = VhsValidator THEN Await(VhsReports, Bind(l, call, v))
  ELSE
    LET validator == Bound(l, VhsValidator)
        reports == v
        warnings == Push(l.warnings, RowsOf(reports) = 0,
                         "Validator report history is empty for this key.")
    IN IF RaisesOn(reports) THEN Return(toolError(TypeErrorMsg))
       ELSE Return(toToolEnvelope(
              [validator |-> validator,
               reportCount |-> RowsOf(reports),
               metrics |->
                 LET recent == recentOf(reportListOf(reports))
                     signed == signedOf(recent)
                     missed == missedOf(recent) IN
                 [validationsSigned |-> <<signed>>,
                  validationsMissed |-> <<missed>>,
                  uptimeScore |-> uptimeish(signed, missed)]],
              << Source("VHS", "GET /v1/network/validator/{pubkey}"),
                 Source("VHS", "GET /v1/network/validator/{pubkey}/reports") >>,
              NoNum,
              warnings))

\* --- amendment_status --------------------------------------------------
\* Variant: the vote lookup is swallowed like an optional enrichment.
amendment_status_await_softVote(call, resp) ==
  IF call = RpcServerInfo THEN xrplRpc(resp)
  ELSE IF call = VhsAmendmentsVote
    THEN (LET r == fetchWithParse(resp) IN IF r.threw THEN Ok(Null) ELSE r)
  ELSE fetchWithParse(resp)

amendment_status_await(call, resp) ==
  IF call = RpcServerInfo THEN xrplRpc(resp) ELSE fetchWithParse(resp)

amendment_status_cont(a, l, call, v) ==
  IF call = VhsAmendmentsInfo THEN
    (IF a.network THEN Await(VhsAmendmentsVote, Bind(l, call, v))
     ELSE Await(RpcServerInfo, Bind(Bind(l, call, v), VhsAmendmentsVote, Null)))
  ELSE IF call = VhsAmendmentsVote THEN Await(RpcServerInfo, Bind(l, call, v))
  ELSE
    Return(toToolEnvelope(
      [enabledAmendments |-> Bound(l, VhsAmendmentsInfo),
       votingStatus |-> Bound(l, VhsAmendmentsVote),
       rippledNetwork |-> xrplResultEnvelope(v)],
      << Source("VHS", "GET /v1/network/amendments/info"),
         Source("rippled", "server_info") >>,
      NoNum,
      l.warnings))

\* --- search_transactions -----------------------------------------------
search_transactions_await(call, resp) == callLos(resp)

search_transactions_cont(a, l, call, v) ==
  IF RaisesOn(v) THEN Return(toolError(TypeErrorMsg))
  ELSE Return(toToolEnvelope(
         [count |-> RowsOf(v)],
         << Source("LOS", "GET /transactions") >>,
         NoNum,
         <<>>))

\* --- resolve_entities --------------------------------------------------
LowerChar(c) ==
  IF IsUpper(c) \/ (c \in 192..222 /\ c # 215) THEN c + 32 ELSE c

ToLowerCase(s) == [k \in 1..Len(s) |-> LowerChar(s[k])]

\* [1-9A-HJ-NP-Za-km-z]
IsAddressChar(c) ==
  c \in 49..57 \/ c \in 65..72 \/ c \in 74..78 \/ c \in 80..90
    \/ c \in 97..107 \/ c \in 109..122

\* /^[A-Fa-f0-9]{64}$/
MatchesTxHash(s) == Len(s) = 64 /\ \A k \in 1..Len(s) : IsHexChar(s[k])

\* Variant: the repetition is {25,34}.
MatchesAccountFrom25(s) ==
  Len(s) \in 26..35 /\ s[1] = 114 /\ \A k \in 2..Len(s) : IsAddressChar(s[k])

\* /^r[1-9A-HJ-NP-Za-km-z]{24,34}$/
MatchesAccount(s) ==
  Len(s) \in 25..35 /\ s[1] = 114 /\ \A k \in 2..Len(s) : IsAddressChar(s[k])

\* /^[A-Fa-f0-9]{40}\.r[1-9A-HJ-NP-Za-km-z]{24,34}$/
MatchesTokenId(s) ==
  Len(s) > 41 /\ (\A k \in 1..40 : IsHexChar(s[k])) /\ s[41] = 46
    /\ MatchesAccount(SubSeq(s, 42, Len(s)))

\* /^[0-9]+$/
MatchesDigits(s) == Len(s) > 0 /\ \A k \in 1..Len(s) : IsDigit(s[k])

Includes(s, c) == \E k \in 1..Len(s) : s[k] = c

RECURSIVE DecimalValue(_)
DecimalValue(s) ==
  IF s = <<>> THEN 0 ELSE 10 * DecimalValue(SubSeq(s, 1, Len(s) - 1)) + (s[Len(s)] - 48)

\* A normalized value is a string or (for a ledger index) a number.
StrV(s) == [t |-> "string", s |-> s, n |-> 0]
NumV(n) == [t |-> "number", s |-> <<>>, n |-> n]

Entity(type, normalized) == [type |-> type, normalized |-> normalized]

\* Variant: the domain branch pushes no suggestions.
resolve_entities_start_bareDomain(a) ==
  LET value == Trim(a.input)
      entity ==
        IF MatchesTxHash(value) THEN Entity("tx_hash", StrV(ToUpperCase(value)))
        ELSE IF MatchesAccount(value) THEN Entity("account", StrV(value))
        ELSE IF MatchesTokenId(value) THEN Entity("token_id", StrV(ToUpperCase(value)))
        ELSE IF MatchesDigits(value) THEN Entity("ledger_index", NumV(DecimalValue(value)))
        ELSE IF Includes(value, 46) THEN Entity("domain_or_host", StrV(ToLowerCase(value)))
        ELSE Entity("unknown", StrV(value))
      suggestions ==
        IF entity.type = "tx_hash" THEN <<"tx_explain", "xrpl_tx">>
        ELSE IF entity.type = "account" THEN <<"account_overview", "xrpl_account_info">>
        ELSE IF entity.type = "token_id" THEN <<"token_overview", "los_get_token">>
        ELSE IF entity.type = "ledger_index" THEN <<"ledger_summary", "xrpl_ledger">>
        ELSE <<>>
  IN Return(toToolEnvelope(
       [entity |-> entity, nextTools |-> suggestions],
       << Source("local-resolver", "pattern-match") >>,
       NoNum,
       IF entity.type = "unknown"
         THEN <<"Input did not match known XRPL identifier patterns.">>
         ELSE <<>>))

resolve_entities_start(a) ==
  LET value == Trim(a.input)
      entity ==
        IF MatchesTxHash(value) THEN Entity("tx_hash", StrV(ToUpperCase(value)))
        ELSE IF MatchesAccount(value) THEN Entity("account", StrV(value))
        ELSE IF MatchesTokenId(value) THEN Entity("token_id", StrV(ToUpperCase(value)))
        ELSE IF MatchesDigits(value) THEN Entity("ledger_index", NumV(DecimalValue(value)))
        ELSE IF Includes(value, 46) THEN Entity("domain_or_host", StrV(ToLowerCase(value)))
        ELSE Entity("unknown", StrV(value))
      suggestions ==
        IF entity.type = "tx_hash" THEN <<"tx_explain", "xrpl_tx">>
        ELSE IF entity.type = "account" THEN <<"account_overview", "xrpl_account_info">>
        ELSE IF entity.type = "token_id" THEN <<"token_overview", "los_get_token">>
        ELSE IF entity.type = "ledger_index" THEN <<"ledger_summary", "xrpl_ledger">>
        ELSE IF entity.type = "domain_or_host" THEN <<"xrplmeta_get", "validator_set_overview">>
        ELSE <<>>
  IN Return(toToolEnvelope(
       [entity |-> entity, nextTools |-> suggestions],
       << Source("local-resolver", "pattern-match") >>,
       NoNum,
       IF entity.type = "unknown"
         THEN <<"Input did not match known XRPL identifier patterns.">>
         ELSE <<>>))

\* ------------------------------------------------------------------------
\* The registered composite tools
\* ------------------------------------------------------------------------
Tools ==
  {"network_overview", "ledger_summary", "tx_explain", "account_overview",
   "token_overview", "market_snapshot", "amm_overview",
   "validator_set_overview", "validator_health", "amendment_status",
   "search_transactions", "resolve_entities"}

\* The handler from its entry to its first await (or to its return): the
\* first upstream call of the handler's text, after the currency check in
\* token_overview; resolve_entities awaits nothing.
Start(t, a) ==
  CASE t = "network_overview" -> Await(RpcServerInfo, NewLocal)
    [] t = "ledger_summary" -> Await(RpcLedger, NewLocal)
    [] t = "tx_explain" -> Await(LosTransactions, NewLocal)
    [] t = "account_overview" -> Await(RpcAccountInfo, NewLocal)
    [] t = "token_overview" -> token_overview_start(a)
    [] t = "market_snapshot" -> Await(RpcBookOffers, NewLocal)
    [] t = "amm_overview" -> Await(RpcAmmInfo, NewLocal)
    [] t = "validator_set_overview" -> Await(VhsValidators, NewLocal)
    [] t = "validator_health" -> Await(VhsValidator, NewLocal)
    [] t = "amendment_status" -> Await(VhsAmendmentsInfo, NewLocal)
    [] t = "search_transactions" -> Await(LosTransactions, NewLocal)
    [] t = "resolve_entities" -> resolve_entities_start(a)

\* The awaited expression around the call: how its completion reaches the
\* handler (thrown, or a value).
Awaited(t, call, resp) ==
  CASE t = "network_overview" -> network_overview_await(call, resp)
    [] t = "ledger_summary" -> ledger_summary_await(call, resp)
    [] t = "tx_explain" -> tx_explain_await(call, resp)
    [] t = "account_overview" -> account_overview_await(call, resp)
    [] t = "token_overview" -> token_overview_await(call, resp)
    [] t = "market_snapshot" -> market_snapshot_await(call, resp)
    [] t = "amm_overview" -> amm_overview_await(call, resp)
    [] t = "validator_set_overview" -> validator_set_overview_await(call, resp)
    [] t = "validator_health" -> validator_health_await(call, resp)
    [] t = "amendment_status" -> amendment_status_await(call, resp)
    [] t = "search_transactions" -> search_transactions_await(call, resp)

\* The handler from the value of the awaited call to its next await.
Cont(t, a, l, call, v) ==
  CASE t = "network_overview" -> network_overview_cont(a, l, call, v)
    [] t = "ledger_summary" -> ledger_summary_cont(a, l, call, v)
    [] t = "tx_explain" -> tx_explain_cont(a, l, call, v)
    [] t = "account_overview" -> account_overview_cont(a, l, call, v)
    [] t = "token_overview" -> token_overview_cont(a, l, call, v)
    [] t = "market_snapshot" -> market_snapshot_cont(a, l, call, v)
    [] t = "amm_overview" -> amm_overview_cont(a, l, call, v)
    [] t = "validator_set_overview" -> validator_set_overview_cont(a, l, call, v)
    [] t = "validator_health" -> validator_health_cont(a, l, call, v)
    [] t = "amendment_status" -> amendment_status_cont(a, l, call, v)
    [] t = "search_transactions" -> search_transactions_cont(a, l, call, v)

\* Variant: the catch-all sends the failed request once more before it
\* returns the error.
ResumeRetrying(t, a, l, call, resp) ==
  LET r == Awaited(t, call, resp) IN
  IF r.threw THEN [issue |-> <<call>>, local |-> NewLocal, ret |-> <<toolError(r.msg)>>]
  ELSE Cont(t, a, l, call, r.val)

\* try { ... } catch (error) { return toolError(error); } around every
\* handler body: a thrown completion of the awaited call ends the handler.
Resume(t, a, l, call, resp) ==
  LET r == Awaited(t, call, resp) IN
  IF r.threw THEN Return(toolError(r.msg)) ELSE Cont(t, a, l, call, r.val)

\* ------------------------------------------------------------------------
\* State
\* ------------------------------------------------------------------------
VARIABLES
  env,       \* what the environment of this run offers (fixed by Init)
  phase,     \* per invocation: "idle", "running" (suspended at an await), "done"
  tool,      \* per invocation: the tool invoked
  args,      \* per invocation: its arguments
  inflight,  \* per invocation: the upstream requests issued and not completed
  local,     \* per invocation: the handler's local variables
  log,       \* per invocation: the issue/complete events of its requests
  returned   \* per invocation: the results handed back to the caller

vars == <<env, phase, tool, args, inflight, local, log, returned>>

Inv == 1..NumInv

\* ------------------------------------------------------------------------
\* Environment: callers and upstream services
\* ------------------------------------------------------------------------
\* "seq"    one invocation, every response the upstream schemas allow
\* "shapes" one invocation, also responses whose lists hold null entries
\* "conc"   NumInv concurrent invocations; a request succeeds or fails
\* "cur"    one invocation, the large set of currency strings; requests
\*          succeed
\* "http"   one invocation, responses with status codes on both sides of
\*          the 200..299 range
\* "num"    one invocation, responses that differ in the numbers the
\*          handlers compute with; rippled and VHS requests succeed
\* "parse"  one invocation, responses that differ in content type and in
\*          the form of the body text
Slots == IF env = "conc" THEN Inv ELSE {1}

Fields == {Missing, NullField} \cup {NumField(n) : n \in 0..MaxIdx}

\* The calls in whose response the handler looks up a ledger index, and
\* those from whose response it takes a list.
ReadsIdx(t, call) ==
  \/ t = "network_overview"
  \/ call \in {RpcLedger, RpcTx, RpcAccountInfo, RpcBookOffers}
  \/ t = "amm_overview" /\ call = RpcAmmInfo

ReadsRows(t, call) ==
  \/ call \in {LosTransactions, RpcTx, RpcAccountLines, RpcAccountTx,
               RpcBookOffers, VhsValidators, VhsReports}

\* Status documents that hold the ledger index below the top level.
NestedBodies ==
  {Nested(Val("obj", NumField(n), 0, FALSE), d) : n \in 0..MaxIdx, d \in 1..MaxDepth}

\* Response bodies of the upstream schemas: objects that differ in what the
\* handler reads, a raw text, and null (an empty JSON body).
SchemaBodies(t, call) ==
  {Val("obj", f, n, FALSE) :
     f \in (IF ReadsIdx(t, call) THEN Fields ELSE {Missing}),
     n \in (IF ReadsRows(t, call) THEN 0..MaxRows ELSE {0})}
    \cup {SomeText, Null}
    \cup (IF t = "network_overview" /\ call.sys = "LOS" THEN NestedBodies ELSE {})

\* Objects whose list holds a null entry.
MalformedBodies(t, call) ==
  IF ReadsRows(t, call) THEN {Val("obj", Missing, n, TRUE) : n \in 1..MaxRows} ELSE {}

\* Response bodies that differ in the numbers the handlers compute with:
\* the trades of market_snapshot, the account_data and the trustline count
\* of account_overview.
Prices == {Missing, NumField(1), NumField(3), TextField, HugeField}
Amounts == {Missing, NumField(0), NumField(1), NumField(2), NumField(-1), TextField, HugeField}
TradeLists ==
  UNION {[1..n -> {Row(p, q) : p \in Prices, q \in Amounts}] : n \in 0..MaxList}
OwnerCounts == {Missing, NumField(OwnerCountLimit), NumField(OwnerCountLimit + 1), TextField}
FlagValues == {Missing, NullField, NumField(0), NumField(1), TextField}
TrustlineCounts == {0, TrustlineLimit, TrustlineLimit + 1}
\* Reports: signed only, missed only, empty, both, a negative count, the
\* alias fields, a zero overridden by its alias, a count that is a text.
UnitReport == Report(NumField(1), Missing, NumField(0), Missing)
Reports ==
  {UnitReport,
   Report(NumField(0), Missing, NumField(1), Missing),
   Report(Missing, Missing, Missing, Missing),
   Report(NumField(2), Missing, NumField(1), Missing),
   Report(NumField(-1), Missing, NumField(0), Missing),
   Report(Missing, NumField(1), Missing, NumField(1)),
   Report(NumField(0), NumField(1), NumField(0), Missing),
   Report(TextField, Missing, NumField(1), Missing)}
\* Short histories, and histories of ReportWindow and ReportWindow + 1
\* reports that differ in the oldest one.
ReportLists ==
  UNION {[1..n -> Reports] : n \in 0..MaxList}
    \cup {<<r>> \o Rep(UnitReport, n) : r \in Reports, n \in {ReportWindow - 1, ReportWindow}}

\* Transaction types: none, null, 5, the four names of the classification,
\* "AMMDeposit", "AMM", "AM", "amm", "XAMM", "Payments", "" and "TrustSet".
TransactionTypes ==
  {NoType, NullType, TypeValue("number", <<53>>)}
    \cup {TypeName(n) : n \in
            {OfferCreate, AMMSwap, OfferCancel, Payment,
             AMM \o <<68, 101, 112, 111, 115, 105, 116>>, AMM, <<65, 77>>,
             <<97, 109, 109>>, <<88>> \o AMM, Payment \o <<115>>, <<>>,
             <<84, 114, 117, 115, 116, 83, 101, 116>>}}

DefaultBody == Val("obj", NumField(1), 1, FALSE)

NumericBodies(t, call) ==
  IF t = "market_snapshot" /\ call = LosTransactions
    THEN {WithList(DefaultBody, trades) : trades \in TradeLists} \cup {Null}
  ELSE IF t = "account_overview" /\ call = RpcAccountInfo
    THEN {WithAccountData(DefaultBody, oc, fl) : oc \in OwnerCounts, fl \in FlagValues}
  ELSE IF t = "account_overview" /\ call = RpcAccountLines
    THEN {Val("obj", Missing, n, FALSE) : n \in TrustlineCounts}
  ELSE IF t = "validator_health" /\ call = VhsReports
    THEN {WithList(DefaultBody, reports) : reports \in ReportLists}
  ELSE IF t = "tx_explain" /\ call = RpcTx
    THEN {WithType(DefaultBody, type) : type \in TransactionTypes} \cup {SomeText}
  ELSE {DefaultBody}

Bodies(t, call) ==
  CASE env = "seq" -> SchemaBodies(t, call)
    [] env = "shapes" -> SchemaBodies(t, call) \cup MalformedBodies(t, call)
    [] env = "num" -> NumericBodies(t, call)
    [] OTHER -> {DefaultBody}

\* The upstream systems that answer 503 in a scenario.
Unavailable ==
  CASE env \in {"cur", "http", "parse"} -> {}
    [] env \in {"conc", "num"} -> {"LOS"}
    [] OTHER -> {"LOS", "VHS", "rippled"}

\* The status codes of the "http" scenario, on both sides of 200..299.
OkStatuses == {200, 299}
FailStatuses == {300, 404, 503}

\* Content types: "application/json", the same with "; charset=utf-8",
\* "application/problem+json", "text/plain", and no header ("").
ContentTypes ==
  {ApplicationJson,
   ApplicationJson \o <<59, 32, 99, 104, 97, 114, 115, 101, 116, 61, 117, 116, 102, 45, 56>>,
   SubSeq(ApplicationJson, 1, 12) \o <<112, 114, 111, 98, 108, 101, 109, 43>>
     \o SubSeq(ApplicationJson, 13, 16),
   TextPlain,
   <<>>}

\* Body texts: an object, an array, a truncated object, a truncated array,
\* the number 123, the word null, an object after a line break, a plain
\* message, and the empty text.
BodyTexts ==
  {Text("{", <<DefaultBody>>), Text("[", <<EmptyObj>>),
   Text("{", <<>>), Text("[", <<>>),
   Text("other", <<Scalar>>), Text("other", <<Null>>), Text("other", <<DefaultBody>>),
   Text("other", <<>>), Text("", <<>>)}

\* The tools whose single request is answered in every way above.
ParsedCalls(t, call) == t \in {"validator_set_overview", "search_transactions"}

Responses(t, call) ==
  IF env = "http"
    THEN {Resp(FALSE, st, DefaultBody) : st \in OkStatuses}
           \cup {Resp(FALSE, st, b) : st \in FailStatuses, b \in {DefaultBody, SomeText}}
  ELSE IF env = "parse" /\ ParsedCalls(t, call)
    THEN {Response(FALSE, st, ct, tx) : st \in {200, 503}, ct \in ContentTypes, tx \in BodyTexts}
  ELSE
  {Resp(FALSE, 200, b) : b \in Bodies(t, call)}
    \cup (IF call.sys \in Unavailable THEN {Resp(FALSE, 503, SomeText)} ELSE {})
    \cup (IF env \in {"seq", "shapes"} THEN {NetErr} ELSE {})

\* Currency strings: space, '0', 'A', 'Z', 'a', e-acute (2 bytes), euro (3).
Alphabet == {32, 48, 65, 90, 97, 233, 8364}

Strings(n) == UNION {[1..k -> Alphabet] : k \in 0..n}

RunLengths ==
  {CurrencyBytes - 1, CurrencyBytes, CurrencyBytes + 1,
   CurrencyHexLen - 1, CurrencyHexLen, CurrencyHexLen + 1}

CurrencyInputs ==
  (Strings(MaxShort) \ {<<>>})
    \cup {pre \o Rep(c, n) \o suf :
            pre \in Strings(MaxAffix), c \in Alphabet, n \in RunLengths, suf \in Strings(1)}

\* "USD", "eur." and 21 times 'A'
SmallPool == {<<85, 83, 68>>, <<101, 117, 114, 46>>, Rep(65, CurrencyBytes + 1)}

CurrencyPool ==
  CASE env = "cur" -> CurrencyInputs
    [] env = "conc" -> {<<85, 83, 68>>, Rep(65, CurrencyBytes + 1)}
    [] OTHER -> SmallPool

\* "abc", "123", "a.b", an address, 64 nines, a token id; then inputs at the
\* edges of the patterns: " 123 ", " ", "A.B", 64 hex digits of both cases,
\* 63 and 65 hex digits, 'r' with 23, 34 and 35 more characters, an address
\* holding '0', and token ids with a short address or a short code.
InputPool ==
  IF env = "conc" THEN {<<49, 50, 51>>}
  ELSE {<<97, 98, 99>>, <<49, 50, 51>>, <<97, 46, 98>>, <<114>> \o Rep(65, 24),
        Rep(57, 64), Rep(97, 40) \o <<46, 114>> \o Rep(65, 24),
        <<32, 49, 50, 51, 32>>, <<32>>, <<65, 46, 66>>,
        Rep(97, 32) \o Rep(70, 32), Rep(97, 63), Rep(97, 65),
        <<114>> \o Rep(65, 23), <<114>> \o Rep(65, 34), <<114>> \o Rep(65, 35),
        <<114>> \o Rep(65, 23) \o <<48>>,
        Rep(97, 40) \o <<46, 114>> \o Rep(65, 23),
        Rep(97, 39) \o <<46, 114>> \o Rep(65, 24)}

NoArgs == Args(<<>>, FALSE, FALSE, <<>>)

\* The schema-valid arguments of tool t, as far as the handler reads them.
\* optional ledger_hash / network argument given or not
Flags == IF env = "conc" THEN {TRUE} ELSE BOOLEAN

ArgsOf(t) ==
  CASE t = "ledger_summary" -> {Args(<<>>, h, FALSE, <<>>) : h \in Flags}
    [] t = "amendment_status" -> {Args(<<>>, FALSE, n, <<>>) : n \in Flags}
    [] t = "token_overview" -> {Args(c, FALSE, FALSE, <<>>) : c \in CurrencyPool}
    [] t = "resolve_entities" -> {Args(<<>>, FALSE, FALSE, x) : x \in InputPool}
    [] OTHER -> {NoArgs}

\* ------------------------------------------------------------------------
\* Actions
\* ------------------------------------------------------------------------
Event(ev, call, resp) == [ev |-> ev, call |-> call, resp |-> resp]

Issued(calls) == [k \in 1..Len(calls) |-> Event("issue", calls[k], NetErr)]

Range(q) == {q[k] : k \in 1..Len(q)}

\* Variant: the locals are module-level variables, one copy for all
\* activations.
SetLocalShared(i, l) == [j \in Inv |-> l]

\* const warnings = [] and the other locals live in the handler's own
\* activation: a run of invocation i writes the locals of i only.
SetLocal(i, l) == [local EXCEPT ![i] = l]

\* Invocation i runs one stretch s of its handler, after the events done.
Advance(i, t, a, completed, done, s) ==
  /\ tool' = [tool EXCEPT ![i] = t]
  /\ args' = [args EXCEPT ![i] = a]
  /\ inflight' = [inflight EXCEPT ![i] = (@ \ completed) \cup Range(s.issue)]
  /\ local' = SetLocal(i, s.local)
  /\ log' = [log EXCEPT ![i] = @ \o done \o Issued(s.issue)]
  /\ returned' = [returned EXCEPT ![i] = @ \o s.ret]
  /\ phase' = [phase EXCEPT ![i] = IF s.ret # <<>> THEN "done" ELSE "running"]
  /\ UNCHANGED env

\* The caller invokes tool t: the handler runs to its first await.
Invoke(i, t) ==
  /\ phase[i] = "idle"
  /\ \E a \in ArgsOf(t) : Advance(i, t, a, {}, <<>>, Start(t, a))

\* An upstream request of invocation i completes: the handler resumes.
Complete(i, t) ==
  /\ phase[i] = "running"
  /\ tool[i] = t
  /\ \E call \in inflight[i] : \E resp \in Responses(t, call) :
       Advance(i, t, args[i], {call}, <<Event("complete", call, resp)>>,
               Resume(t, args[i], local[i], call, resp))

network_overview(i) == Invoke(i, "network_overview") \/ Complete(i, "network_overview")
ledger_summary(i) == Invoke(i, "ledger_summary") \/ Complete(i, "ledger_summary")
tx_explain(i) == Invoke(i, "tx_explain") \/ Complete(i, "tx_explain")
account_overview(i) == Invoke(i, "account_overview") \/ Complete(i, "account_overview")
token_overview(i) == Invoke(i, "token_overview") \/ Complete(i, "token_overview")
market_snapshot(i) == Invoke(i, "market_snapshot") \/ Complete(i, "market_snapshot")
amm_overview(i) == Invoke(i, "amm_overview") \/ Complete(i, "amm_overview")
validator_set_overview(i) == Invoke(i, "validator_set_overview") \/ Complete(i, "validator_set_overview")
validator_health(i) == Invoke(i, "validator_health") \/ Complete(i, "validator_health")
amendment_status(i) == Invoke(i, "amendment_status") \/ Complete(i, "amendment_status")
search_transactions(i) == Invoke(i, "search_transactions") \/ Complete(i, "search_transactions")
resolve_entities(i) == Invoke(i, "resolve_entities")

InitIn(mode) ==
  /\ env = mode
  /\ phase = [i \in Inv |-> "idle"]
  /\ tool = [i \in Inv |-> "none"]
  /\ args = [i \in Inv |-> NoArgs]
  /\ inflight = [i \in Inv |-> {}]
  /\ local = [i \in Inv |-> NewLocal]
  /\ log = [i \in Inv |-> <<>>]
  /\ returned = [i \in Inv |-> <<>>]

Init == InitIn("seq")
InitShapes == InitIn("shapes")
InitConc == InitIn("conc")
InitCur == InitIn("cur")
InitNum == InitIn("num")
InitHttp == InitIn("http")
InitParse == InitIn("parse")

Next ==
  \/ \E i \in Slots : network_overview(i)
  \/ \E i \in Slots : ledger_summary(i)
  \/ \E i \in Slots : tx_explain(i)
  \/ \E i \in Slots : account_overview(i)
  \/ \E i \in Slots : token_overview(i)
  \/ \E i \in Slots : market_snapshot(i)
  \/ \E i \in Slots : amm_overview(i)
  \/ \E i \in Slots : validator_set_overview(i)
  \/ \E i \in Slots : validator_health(i)
  \/ \E i \in Slots : amendment_status(i)
  \/ \E i \in Slots : search_transactions(i)
  \/ \E i \in Slots : resolve_entities(i)

Spec == Init /\ [][Next]_vars
SpecShapes == InitShapes /\ [][Next]_vars
SpecConc == InitConc /\ [][Next]_vars
SpecCur == InitCur /\ [][Next]_vars
SpecNum == InitNum /\ [][Next]_vars
SpecHttp == InitHttp /\ [][Next]_vars
SpecParse == InitParse /\ [][Next]_vars

TypeOK ==
  /\ env \in {"seq", "shapes", "conc", "cur", "num", "http", "parse"}
  /\ \A i \in Inv : phase[i] \in {"idle", "running", "done"}

\* ------------------------------------------------------------------------
\* The upstream calls of each handler, in the order of the handler's text,
\* and how each is awaited
\* ------------------------------------------------------------------------
HandlerOrder(t) ==
  CASE t = "network_overview" -> <<RpcServerInfo>> \o candidates
    [] t = "ledger_summary" -> <<RpcLedger, LosLedgerByIndex, LosLedgerByHash>>
    [] t = "tx_explain" -> <<LosTransactions, RpcTx>>
    [] t = "account_overview" -> <<RpcAccountInfo, RpcAccountLines, RpcAccountTx>>
    [] t = "token_overview" -> <<LosToken, LosTransactions, RpcBookOffers, RpcAmmInfo>>
    [] t = "market_snapshot" -> <<RpcBookOffers, RpcAmmInfo, LosTransactions>>
    [] t = "amm_overview" -> <<RpcAmmInfo, LosTransactions>>
    [] t = "validator_set_overview" -> <<VhsValidators>>
    [] t = "validator_health" -> <<VhsValidator, VhsReports>>
    [] t = "amendment_status" -> <<VhsAmendmentsInfo, VhsAmendmentsVote, RpcServerInfo>>
    [] t = "search_transactions" -> <<LosTransactions>>
    [] OTHER -> <<>>

\* The calls made through tryLos.
SoftLosCalls(t) ==
  CASE t = "network_overview" -> Range(candidates)
    [] t = "ledger_summary" -> {LosLedgerByIndex, LosLedgerByHash}
    [] t = "tx_explain" -> {LosTransactions}
    [] t = "token_overview" -> {LosToken, LosTransactions}
    [] t = "market_snapshot" -> {LosTransactions}
    [] t = "amm_overview" -> {LosTransactions}
    [] OTHER -> {}

\* The calls made inside an inline try/catch.
InlineCaughtCalls(t) ==
  IF t \in {"token_overview", "market_snapshot"} THEN {RpcAmmInfo} ELSE {}

\* The calls whose failure reaches the handler's catch-all.
MandatoryCalls(t) == Range(HandlerOrder(t)) \ (SoftLosCalls(t) \cup InlineCaughtCalls(t))

\* ------------------------------------------------------------------------
\* Vocabulary of the properties
\* ------------------------------------------------------------------------
Done(i) == phase[i] = "done"

IsEnvelope(r) ==
  /\ DOMAIN r = {"content"}
  /\ DOMAIN r.content = {"data", "sources", "freshness", "warnings"}

IsError(r) ==
  /\ DOMAIN r = {"isError", "content"}
  /\ r.isError = TRUE
  /\ DOMAIN r.content = {"text", "status", "statusText", "body"}

Failed(resp) == resp.net \/ ~ResponseOk(resp)

\* The message of the failure of a request answered by resp.
FailureMessage(resp) ==
  IF resp.net THEN FetchFailed
  ELSE [text |-> "HTTP", status |-> resp.status, statusText |-> resp.statusText,
        body |-> resp.body]

Completions(i) == {k \in 1..Len(log[i]) : log[i][k].ev = "complete"}
Issues(i) == {k \in 1..Len(log[i]) : log[i][k].ev = "issue"}

FailedCalls(i, calls) ==
  {log[i][k].call : k \in {j \in Completions(i) : log[i][j].call \in calls /\ Failed(log[i][j].resp)}}

Result(i) == returned[i][1]

ReturnedEnvelope(i) == Done(i) /\ Len(returned[i]) = 1 /\ IsEnvelope(Result(i))
ReturnedError(i) == Done(i) /\ Len(returned[i]) = 1 /\ IsError(Result(i))

\* ------------------------------------------------------------------------
\* C1  Every invocation of a composite tool hands back at most one result,
\*     and exactly one once it has finished; the result is either an
\*     Envelope with all of data, sources, freshness and warnings or an
\*     error result (isError and a message), never both, never an Envelope
\*     with a field missing; a handler that has not finished is waiting for
\*     an upstream request.  Checked for every response shape, malformed
\*     ones included.
\* ------------------------------------------------------------------------
C1_OneEnvelopeOrError ==
  \A i \in Inv :
    /\ Len(returned[i]) <= 1
    /\ Done(i) <=> Len(returned[i]) = 1
    /\ phase[i] = "running" => inflight[i] # {}
    /\ \A k \in 1..Len(returned[i]) :
         /\ IsEnvelope(returned[i][k]) \/ IsError(returned[i][k])
         /\ ~(IsEnvelope(returned[i][k]) /\ IsError(returned[i][k]))

\* An invocation that fetched two things and returned an Envelope without
\* warnings.
C1_Witness ==
  \E i \in Inv :
    /\ ReturnedEnvelope(i)
    /\ Cardinality(Completions(i)) >= 2
    /\ Result(i).content.warnings = <<>>

\* ------------------------------------------------------------------------
\* C2  When a mandatory upstream call of a composite tool fails, the tool
\*     returns the error result whose text is the message of that failure,
\*     and nothing else: no value gathered before the failure is in it.
\* ------------------------------------------------------------------------
C2_MandatoryFailureIsError ==
  \A i \in Inv :
    \A k \in Completions(i) :
      (log[i][k].call \in MandatoryCalls(tool[i]) /\ Failed(log[i][k].resp))
        => /\ Done(i)
           /\ returned[i] = <<[isError |-> TRUE, content |-> FailureMessage(log[i][k].resp)]>>

\* A handler that had gathered an optional value and a mandatory one before
\* a later mandatory call failed.
C2_Witness ==
  \E i \in Inv :
    /\ ReturnedError(i)
    /\ \E k \in Completions(i) :
         /\ log[i][k].call \in MandatoryCalls(tool[i])
         /\ Failed(log[i][k].resp)
    /\ \E k \in Completions(i) :
         /\ ~Failed(log[i][k].resp)
         /\ Truthy(log[i][k].resp.body)

\* ------------------------------------------------------------------------
\* C3  A failed tryLos call becomes null and does not abort the tool: when
\*     every mandatory call of the invocation succeeded (with a response of
\*     the upstream's schema), the tool returns an Envelope, whatever tryLos
\*     calls failed.
\* ------------------------------------------------------------------------
C3_SoftFailureNeverAborts ==
  \A i \in Inv :
    /\ \A k \in 1..Len(local[i].vals) :
         local[i].vals[k].call \in FailedCalls(i, SoftLosCalls(tool[i]))
           => local[i].vals[k].val = Null
    /\ FailedCalls(i, SoftLosCalls(tool[i])) # {}
         => /\ phase[i] \in {"running", "done"}
            /\ (Done(i) /\ FailedCalls(i, MandatoryCalls(tool[i])) = {})
                 => ReturnedEnvelope(i)
            /\ ReturnedError(i) => FailedCalls(i, MandatoryCalls(tool[i])) # {}

\* A finished invocation whose tryLos call failed and which returned an
\* Envelope.
C3_Witness ==
  \E i \in Inv :
    /\ FailedCalls(i, SoftLosCalls(tool[i])) # {}
    /\ ReturnedEnvelope(i)

\* ------------------------------------------------------------------------
\* C4  Whenever an optional upstream call of a composite tool failed and was
\*     turned into absence (a tryLos call, the inline-caught amm_info call,
\*     or the whole probe of network_overview), the returned Envelope's
\*     warnings hold an entry for it: at least one warning per absent
\*     optional value.
\* ------------------------------------------------------------------------
AbsentOptionals(i) ==
  Cardinality(FailedCalls(i, (SoftLosCalls(tool[i]) \ Range(candidates))
                               \cup InlineCaughtCalls(tool[i])))
    + (IF Range(candidates) \subseteq FailedCalls(i, Range(candidates)) THEN 1 ELSE 0)

C4_WarningPerAbsence ==
  \A i \in Inv :
    ReturnedEnvelope(i) => Len(Result(i).content.warnings) >= AbsentOptionals(i)

\* ------------------------------------------------------------------------
\* C5  In every Envelope the sources hold exactly one provenance record per
\*     upstream request the handler issued: for each upstream system, as
\*     many records as requests sent to it.
\* ------------------------------------------------------------------------
UpstreamSystems == {"LOS", "VHS", "rippled"}

C5_OneSourcePerCall ==
  \A i \in Inv :
    ReturnedEnvelope(i) =>
      \A sys \in UpstreamSystems :
        Cardinality({k \in 1..Len(Result(i).content.sources) :
                       Result(i).content.sources[k].system = sys})
          = Cardinality({k \in Issues(i) : log[i][k].call.sys = sys})

\* ------------------------------------------------------------------------
\* C6  Within one invocation the upstream calls are issued one after the
\*     other in the order of the handler's text: at most one request of the
\*     invocation is in flight, every request is issued only after the one
\*     before it completed, and a later request is a later call of the text.
\* ------------------------------------------------------------------------
Position(t, call) ==
  CHOOSE n \in 1..Len(HandlerOrder(t)) : HandlerOrder(t)[n] = call

C6_SequentialCalls ==
  \A i \in Inv :
    /\ Cardinality(inflight[i]) <= 1
    /\ \A k \in 1..Len(log[i]) :
         IF k % 2 = 1 THEN log[i][k].ev = "issue"
         ELSE log[i][k].ev = "complete" /\ log[i][k].call = log[i][k - 1].call
    /\ \A j, k \in Issues(i) :
         j < k => Position(tool[i], log[i][j].call) < Position(tool[i], log[i][k].call)

\* An invocation waiting for its third request while another invocation also
\* has a request in flight.
C6_Witness ==
  \E i, j \in Inv :
    /\ i # j
    /\ Len(log[i]) >= 5
    /\ Cardinality(inflight[i]) = 1
    /\ inflight[j] # {}

\* ------------------------------------------------------------------------
\* C7  Concurrent invocations do not interfere: under every interleaving,
\*     the locals, the request in flight and the result of an invocation are
\*     those of the same handler run alone on the responses this invocation
\*     received; an invocation not yet made has no state.
\* ------------------------------------------------------------------------
RECURSIVE Replies(_)
Replies(events) ==
  IF events = <<>> THEN <<>>
  ELSE IF Head(events).ev = "complete" THEN <<Head(events).resp>> \o Replies(Tail(events))
  ELSE Replies(Tail(events))

RECURSIVE RunAlone(_, _, _, _)
RunAlone(t, a, s, replies) ==
  IF replies = <<>> \/ s.issue = <<>> THEN s
  ELSE LET resumed == Resume(t, a, s.local, s.issue[1], Head(replies)) IN
       RunAlone(t, a, resumed, Tail(replies))

C7_NoInterference ==
  \A i \in Inv :
    IF phase[i] = "idle"
      THEN local[i] = NewLocal /\ inflight[i] = {} /\ returned[i] = <<>> /\ log[i] = <<>>
    ELSE LET s == RunAlone(tool[i], args[i], Start(tool[i], args[i]), Replies(log[i])) IN
      /\ local[i] = s.local
      /\ inflight[i] = Range(s.issue)
      /\ returned[i] = s.ret

\* Two invocations suspended at the same time, each after a completed
\* request, with different locals.
C7_Witness ==
  \E i, j \in Inv :
    /\ i # j
    /\ phase[i] = "running" /\ Completions(i) # {}
    /\ phase[j] = "running" /\ Completions(j) # {}
    /\ local[i] # local[j]

\* ------------------------------------------------------------------------
\* Currency inputs of the token_overview invocations.
\* ------------------------------------------------------------------------
TokenInvocations == {i \in Inv : tool[i] = "token_overview"}
CurrencyOf(i) == args[i].currency
RejectsCurrency(i) ==
  /\ currencyTo160Hex(CurrencyOf(i)) = NoString
  /\ tokenIdFromIssuerCurrency(Issuer, CurrencyOf(i)) = NoString
  /\ returned[i] = <<toolError(NormalizeMsg)>>

\* ------------------------------------------------------------------------
\* C8  For every input of exactly 3 alphanumeric characters (either case),
\*     currencyTo160Hex returns 40 upper-case hex digits: the ASCII encoding
\*     of the input code itself in the leading 6, then 34 zeros.
\* ------------------------------------------------------------------------
C8_IsoCodeEncodesInput ==
  \A i \in TokenInvocations :
    MatchesIso3(CurrencyOf(i)) =>
      currencyTo160Hex(CurrencyOf(i))
        = ToUpperCase(ToHex(AsciiBytes(CurrencyOf(i)))) \o Rep(48, IsoPadLen)

\* ------------------------------------------------------------------------
\* C9  As stated: for every currency string whose UTF-8 encoding is longer
\*     than 20 bytes, currencyTo160Hex returns null, tokenIdFromIssuerCurrency
\*     returns null and token_overview returns the normalization error.
\* ------------------------------------------------------------------------
C9_LongCurrencyRejected ==
  \A i \in TokenInvocations :
    Len(Utf8(CurrencyOf(i))) > CurrencyBytes => RejectsCurrency(i)

\* C9  Amended: the same for every currency string that, once trimmed, is
\*     not a 40-character hexadecimal string and whose trimmed UTF-8 encoding
\*     is longer than 20 bytes.
C9_LongNonHexCurrencyRejected ==
  \A i \in TokenInvocations :
    LET raw == Trim(CurrencyOf(i)) IN
    (~MatchesHex40(raw) /\ Len(Utf8(raw)) > CurrencyBytes) => RejectsCurrency(i)

\* A rejected currency of at most 20 characters but more than 20 bytes.
C9_Witness ==
  \E i \in TokenInvocations :
    /\ Len(Trim(CurrencyOf(i))) <= CurrencyBytes
    /\ Len(Utf8(Trim(CurrencyOf(i)))) > CurrencyBytes
    /\ RejectsCurrency(i)

\* ------------------------------------------------------------------------
\* C10 Round trip: for every normalizable currency input that is not already
\*     40 hex digits, hex-decoding the currency segment of the token id and
\*     stripping the trailing zero bytes gives back the input: its 3
\*     characters for a 3-character alphanumeric code, its UTF-8 bytes for
\*     any other short string.
\* ------------------------------------------------------------------------
HexValue(c) == IF IsDigit(c) THEN c - 48 ELSE IF IsUpper(c) THEN c - 55 ELSE c - 87
HexDecode(hex) ==
  [k \in 1..(Len(hex) \div 2) |-> 16 * HexValue(hex[2 * k - 1]) + HexValue(hex[2 * k])]

RECURSIVE StripTrailingZeros(_)
StripTrailingZeros(bytes) ==
  IF bytes = <<>> \/ bytes[Len(bytes)] # 0 THEN bytes
  ELSE StripTrailingZeros(SubSeq(bytes, 1, Len(bytes) - 1))

CurrencySegment(tokenId) == SubSeq(tokenId, 1, CurrencyHexLen)

C10_RoundTrip ==
  \A i \in TokenInvocations :
    LET c == CurrencyOf(i)
        id == tokenIdFromIssuerCurrency(Issuer, c) IN
    (id # NoString /\ ~MatchesHex40(c)) =>
      StripTrailingZeros(HexDecode(CurrencySegment(id)))
        = IF MatchesIso3(c) THEN AsciiBytes(c) ELSE Utf8(c)

\* ------------------------------------------------------------------------
\* C11 For every input that is a 40-character hexadecimal string in any
\*     letter case, currencyTo160Hex returns the same 40 digits with the
\*     letters upper-cased and nothing else changed.
\* ------------------------------------------------------------------------
HexDigits == (48..57) \cup (65..70) \cup (97..102)
IsHex40Input(c) == Len(c) = 40 /\ \A k \in 1..Len(c) : c[k] \in HexDigits

C11_HexPassesThroughUpperCased ==
  \A i \in TokenInvocations :
    LET c == CurrencyOf(i)
        h == currencyTo160Hex(c) IN
    IsHex40Input(c) =>
      /\ Len(h) = CurrencyHexLen
      /\ \A k \in 1..CurrencyHexLen :
           h[k] = IF c[k] \in 97..102 THEN c[k] - 32 ELSE c[k]

\* A 40-digit input holding lower-case and upper-case letters, accepted by
\* token_overview.
C11_Witness ==
  \E i \in TokenInvocations :
    /\ IsHex40Input(CurrencyOf(i))
    /\ \E j, k \in 1..CurrencyHexLen :
         CurrencyOf(i)[j] \in 97..102 /\ CurrencyOf(i)[k] \in 65..70
    /\ inflight[i] = {LosToken}

\* ------------------------------------------------------------------------
\* What an invocation received: the body of the successful response to a
\* call, null when the call was not made or failed.
\* ------------------------------------------------------------------------
Received(i, call) ==
  LET ks == {k \in Completions(i) : log[i][k].call = call /\ ~Failed(log[i][k].resp)} IN
  IF ks = {} THEN Null ELSE log[i][CHOOSE k \in ks : TRUE].resp.body

\* The LOS trade sample of a market_snapshot invocation, and its sums when
\* every price and amount is a number or absent (absent counts as 0).
Sample(i) ==
  LET b == Received(i, LosTransactions) IN IF b.kind = "obj" THEN b.list ELSE <<>>

IsNumberOrAbsent(f) == f.t \in {"number", "undefined", "null"}
NumericSample(trades) ==
  \A k \in 1..Len(trades) :
    IsNumberOrAbsent(trades[k].price) /\ IsNumberOrAbsent(trades[k].amount)

RECURSIVE AmountSum(_)
AmountSum(trades) ==
  IF trades = <<>> THEN 0 ELSE Head(trades).amount.n + AmountSum(Tail(trades))

RECURSIVE PriceAmountSum(_)
PriceAmountSum(trades) ==
  IF trades = <<>> THEN 0
  ELSE Head(trades).price.n * Head(trades).amount.n + PriceAmountSum(Tail(trades))

SnapshotEnvelopes == {i \in Inv : tool[i] = "market_snapshot" /\ ReturnedEnvelope(i)}
VwapOf(i) == Result(i).content.data.vwap

\* ------------------------------------------------------------------------
\* C12 In market_snapshot the vwap of the result is null whenever the LOS
\*     trade sample is empty or its amounts sum to zero, and a vwap that is
\*     present is a finite number with a non-zero divisor: never the outcome
\*     of a division by zero, never NaN, never infinite.
\* ------------------------------------------------------------------------
C12_VwapAbsentOrFinite ==
  \A i \in SnapshotEnvelopes :
    /\ (Sample(i) = <<>> \/ (NumericSample(Sample(i)) /\ AmountSum(Sample(i)) = 0))
         => VwapOf(i) = <<>>
    /\ VwapOf(i) # <<>> => (VwapOf(i)[1].k = "fin" /\ VwapOf(i)[1].d # 0)

\* A sample of two trades whose amounts cancel, answered with a null vwap.
C12_Witness ==
  \E i \in SnapshotEnvelopes :
    /\ Len(Sample(i)) = 2
    /\ NumericSample(Sample(i))
    /\ Sample(i)[1].amount.n # 0
    /\ AmountSum(Sample(i)) = 0
    /\ VwapOf(i) = <<>>

\* ------------------------------------------------------------------------
\* C13 In network_overview, ledgerLagVsLos is the validated ledger index
\*     minus the latest indexed ledger whenever both are known integers (0
\*     included), and null whenever one of them is unavailable.
\* ------------------------------------------------------------------------
ValidatedKnown(i) ==
  Received(i, RpcServerInfo).kind = "obj" /\ Received(i, RpcServerInfo).idx.t = "number"

C13_LagIsDifference ==
  \A i \in Inv :
    (tool[i] = "network_overview" /\ ReturnedEnvelope(i)) =>
      LET d == Result(i).content.data IN
      IF ValidatedKnown(i) /\ d.losLatestIndexedLedger # NoNum
        THEN d.ledgerLagVsLos
               = Num(Received(i, RpcServerInfo).idx.n - d.losLatestIndexedLedger[1])
        ELSE d.ledgerLagVsLos = NoNum

\* ------------------------------------------------------------------------
\* C16 In account_overview, riskIndicators holds exactly the indicators
\*     whose condition holds, in the order trustline (count > 250), owner
\*     count (OwnerCount > 1000), flags (Flags non-zero); the three checks
\*     are independent.
\* ------------------------------------------------------------------------
AccountEnvelopes == {i \in Inv : tool[i] = "account_overview" /\ ReturnedEnvelope(i)}
NumberValue(f) == IF f.t = "number" THEN f.n ELSE 0

ExpectedIndicators(i) ==
  (IF Received(i, RpcAccountLines).rows > 250
     THEN <<"High trustline count may indicate hub/exchange behavior.">> ELSE <<>>)
  \o (IF NumberValue(Received(i, RpcAccountInfo).OwnerCount) > 1000
        THEN <<"High owner count; reserve pressure likely high.">> ELSE <<>>)
  \o (IF NumberValue(Received(i, RpcAccountInfo).Flags) # 0
        THEN <<"Account has non-zero flags; inspect issuer permissions.">> ELSE <<>>)

C16_RiskIndicators ==
  \A i \in AccountEnvelopes :
    (IsNumberOrAbsent(Received(i, RpcAccountInfo).OwnerCount)
       /\ IsNumberOrAbsent(Received(i, RpcAccountInfo).Flags))
      => Result(i).content.data.riskIndicators = ExpectedIndicators(i)

\* All three indicators fired, and (in another run) exactly the trustline one.
C16_Witness ==
  \E i \in AccountEnvelopes :
    /\ Received(i, RpcAccountLines).rows = 251
    /\ Received(i, RpcAccountInfo).OwnerCount = NumField(1001)
    /\ Received(i, RpcAccountInfo).Flags = NumField(1)
    /\ Len(Result(i).content.data.riskIndicators) = 3

\* ------------------------------------------------------------------------
\* C20 In market_snapshot, whenever the LOS trade sample is non-empty and
\*     the sum of its amounts is not zero (positive or negative), vwap is
\*     the sum of price * amount divided by the sum of amount.
\* ------------------------------------------------------------------------
C20_VwapIsWeightedMean ==
  \A i \in SnapshotEnvelopes :
    (Sample(i) # <<>> /\ NumericSample(Sample(i)) /\ AmountSum(Sample(i)) # 0) =>
      /\ VwapOf(i) # <<>>
      /\ VwapOf(i)[1].k = "fin"
      /\ VwapOf(i)[1].n * AmountSum(Sample(i)) = PriceAmountSum(Sample(i)) * VwapOf(i)[1].d

\* ------------------------------------------------------------------------
\* C14 resolve_entities classifies the trimmed input by the first matching
\*     pattern in the order: 64 hex digits -> tx_hash (upper-cased); 'r' and
\*     24 to 34 address-alphabet characters -> account; 40 hex digits, a
\*     period, an address -> token_id; digits only -> ledger_index (a
\*     number); any other string with a period -> domain_or_host; otherwise
\*     unknown.  A string of 64 digits is a tx_hash, never a ledger_index.
\* ------------------------------------------------------------------------
AddressAlphabet ==
  (49..57) \cup (65..72) \cup (74..78) \cup (80..90) \cup (97..107) \cup (109..122)

AllIn(str, chars) == \A k \in 1..Len(str) : str[k] \in chars

IsAddress(str) ==
  Len(str) \in 25..35 /\ str[1] = 114 /\ AllIn(SubSeq(str, 2, Len(str)), AddressAlphabet)

ExpectedType(str) ==
  IF Len(str) = 64 /\ AllIn(str, HexDigits) THEN "tx_hash"
  ELSE IF IsAddress(str) THEN "account"
  ELSE IF Len(str) > 41 /\ AllIn(SubSeq(str, 1, 40), HexDigits) /\ str[41] = 46
          /\ IsAddress(SubSeq(str, 42, Len(str))) THEN "token_id"
  ELSE IF Len(str) > 0 /\ AllIn(str, 48..57) THEN "ledger_index"
  ELSE IF \E k \in 1..Len(str) : str[k] = 46 THEN "domain_or_host"
  ELSE "unknown"

Resolved == {i \in Inv : tool[i] = "resolve_entities" /\ Done(i)}
InputOf(i) == Trim(args[i].input)
EntityOf(i) == Result(i).content.data.entity

C14_FirstMatchingPattern ==
  \A i \in Resolved :
    /\ EntityOf(i).type = ExpectedType(InputOf(i))
    /\ EntityOf(i).type = "tx_hash" =>
         /\ Len(EntityOf(i).normalized.s) = 64
         /\ \A k \in 1..64 :
              EntityOf(i).normalized.s[k]
                = IF InputOf(i)[k] \in 97..102 THEN InputOf(i)[k] - 32 ELSE InputOf(i)[k]
    /\ EntityOf(i).type = "ledger_index" => EntityOf(i).normalized.t = "number"
    /\ (Len(InputOf(i)) = 64 /\ AllIn(InputOf(i), 48..57)) => EntityOf(i).type = "tx_hash"

\* A string of 64 digits resolved as a transaction hash.
C14_Witness ==
  \E i \in Resolved :
    /\ Len(InputOf(i)) = 64
    /\ AllIn(InputOf(i), 48..57)
    /\ EntityOf(i).type = "tx_hash"

\* ------------------------------------------------------------------------
\* C15 resolve_entities returns an Envelope for every input, never an error
\*     result; warnings is non-empty exactly when the type is unknown;
\*     nextTools is the fixed non-empty list of the type for a recognized
\*     type and empty exactly when the type is unknown.
\* ------------------------------------------------------------------------
NextToolsOf(type) ==
  CASE type = "tx_hash" -> <<"tx_explain", "xrpl_tx">>
    [] type = "account" -> <<"account_overview", "xrpl_account_info">>
    [] type = "token_id" -> <<"token_overview", "los_get_token">>
    [] type = "ledger_index" -> <<"ledger_summary", "xrpl_ledger">>
    [] type = "domain_or_host" -> <<"xrplmeta_get", "validator_set_overview">>
    [] OTHER -> <<>>

C15_ResolveNeverFails ==
  \A i \in Inv :
    tool[i] = "resolve_entities" =>
      /\ ReturnedEnvelope(i)
      /\ Result(i).content.warnings # <<>> <=> EntityOf(i).type = "unknown"
      /\ Result(i).content.data.nextTools = NextToolsOf(EntityOf(i).type)
      /\ Result(i).content.data.nextTools = <<>> <=> EntityOf(i).type = "unknown"

\* An input of white space only: unknown, with a warning and no next tool.
C15_Witness ==
  \E i \in Resolved :
    /\ args[i].input # <<>>
    /\ InputOf(i) = <<>>
    /\ ReturnedEnvelope(i)
    /\ Result(i).content.warnings # <<>>
    /\ Result(i).content.data.nextTools = <<>>

\* ------------------------------------------------------------------------
\* C17 losFreshnessProbe requests the candidate paths one at a time in their
\*     fixed order and returns at the first candidate whose response yields
\*     a numeric ledger-index field, reporting that value and that path; no
\*     later candidate is requested after it; when no candidate yields a
\*     value the result is all absent.
\* ------------------------------------------------------------------------
\* The candidate requests of invocation i, in the order of their issue.
RECURSIVE ProbeIssues(_)
ProbeIssues(events) ==
  IF events = <<>> THEN <<>>
  ELSE IF Head(events).ev = "issue" /\ Head(events).call \in Range(candidates)
    THEN <<Head(events).call>> \o ProbeIssues(Tail(events))
  ELSE ProbeIssues(Tail(events))

\* The response holds a ledger-index field whose value is a number.
YieldsNumber(resp) ==
  ~Failed(resp) /\ resp.body.kind = "obj" /\ resp.body.idx.t = "number"

ProbeAnswers(i) == {k \in Completions(i) : log[i][k].call \in Range(candidates)}

C17_ProbeFirstNumericCandidate ==
  \A i \in Inv :
    tool[i] = "network_overview" =>
      /\ ProbeIssues(log[i]) = SubSeq(candidates, 1, Len(ProbeIssues(log[i])))
      /\ \A k \in ProbeAnswers(i) :
           IF YieldsNumber(log[i][k].resp)
             THEN /\ k = Len(log[i])
                  /\ ReturnedEnvelope(i)
                  /\ Result(i).content.data.losLatestIndexedLedger
                       = Num(log[i][k].resp.body.idx.n)
                  /\ Result(i).content.data.losSourcePath = <<log[i][k].call.method>>
             ELSE /\ log[i][k].call # candidates[Len(candidates)] => k < Len(log[i])
                  /\ (log[i][k].call = candidates[Len(candidates)] /\ ReturnedEnvelope(i))
                       => /\ Result(i).content.data.losLatestIndexedLedger = NoNum
                          /\ Result(i).content.data.losSourcePath = NoPath

\* ------------------------------------------------------------------------
\* C18 For every tool called with schema-valid arguments (a normalizable
\*     currency for token_overview): if every upstream call the handler
\*     issued completed with a 2xx response carrying a well-formed JSON
\*     body, the tool returns a success result, whatever the shape of the
\*     bodies.
\* ------------------------------------------------------------------------
IsJsonBody(body) == body.kind \in {"obj", "null"}

AllAnswered2xxJson(i) ==
  \A k \in Completions(i) :
    /\ ~log[i][k].resp.net
    /\ log[i][k].resp.status \in 200..299
    /\ IsJsonBody(log[i][k].resp.body)

C18_WellFormedResponsesSucceed ==
  \A i \in Inv :
    (/\ Done(i)
     /\ AllAnswered2xxJson(i)
     /\ tool[i] = "token_overview" => currencyTo160Hex(args[i].currency) # NoString)
      => ReturnedEnvelope(i)

\* ------------------------------------------------------------------------
\* C19 fetchWithParse fails exactly when the response status is outside
\*     200..299: then it raises a failure carrying the status code, the
\*     status text and the parsed-or-raw body; for a status inside the range
\*     it returns the parsed-or-raw body.  A handler that awaits the adapter
\*     directly returns that failure as its error.
\* ------------------------------------------------------------------------
AdapterFailure(resp) ==
  [text |-> "HTTP", status |-> resp.status, statusText |-> resp.statusText,
   body |-> resp.body]

C19_AdapterFailsOutside2xx ==
  \A i \in Inv :
    \A k \in Completions(i) :
      LET resp == log[i][k].resp
          r == fetchWithParse(resp) IN
      ~resp.net =>
        /\ r.threw <=> resp.status \notin 200..299
        /\ r.threw => r.msg = AdapterFailure(resp)
        /\ ~r.threw => r.val = resp.body
        /\ (resp.status \notin 200..299 /\ log[i][k].call \in MandatoryCalls(tool[i]))
             => returned[i] = <<[isError |-> TRUE, content |-> AdapterFailure(resp)]>>
        /\ (resp.status \in 200..299 /\ k = Len(log[i]) /\ Done(i)) => ReturnedEnvelope(i)

\* A handler whose first request was answered 299 and went on, and whose
\* second was answered 300 with a JSON body and ended it.
C19_Witness ==
  \E i \in Inv :
    /\ ReturnedError(i)
    /\ \E j, k \in Completions(i) :
         /\ j < k
         /\ log[i][j].resp.status = 299
         /\ log[i][j].call \in MandatoryCalls(tool[i])
         /\ log[i][k].resp.status = 300
         /\ log[i][k].resp.body.kind = "obj"
         /\ Result(i).content.status = 300

\* ------------------------------------------------------------------------
\* C22 After a mandatory upstream call of a composite tool has failed, the
\*     handler issues no further request in that invocation: the failure is
\*     the last event of the invocation, nothing is in flight, the error
\*     result is returned, and no call was issued twice (no retry).
\* ------------------------------------------------------------------------
IssuesOf(i, call) == {k \in Issues(i) : log[i][k].call = call}

C22_NoRequestAfterMandatoryFailure ==
  \A i \in Inv :
    /\ \A k \in Completions(i) :
         (log[i][k].call \in MandatoryCalls(tool[i]) /\ Failed(log[i][k].resp)) =>
           /\ k = Len(log[i])
           /\ inflight[i] = {}
           /\ ReturnedError(i)
    /\ \A k \in Issues(i) : Cardinality(IssuesOf(i, log[i][k].call)) = 1

\* account_overview whose second request failed: two requests issued, the
\* third never sent.
C22_Witness ==
  \E i \in Inv :
    /\ tool[i] = "account_overview"
    /\ ReturnedError(i)
    /\ Len(log[i]) = 4
    /\ log[i][4].call = RpcAccountLines
    /\ Failed(log[i][4].resp)
    /\ IssuesOf(i, RpcAccountTx) = {}

\* ------------------------------------------------------------------------
\* C23 token_overview returns the normalization error exactly when the
\*     currency has no 40-digit code, and then before any upstream request
\*     is issued; the error is the fixed normalization message, and an
\*     upstream failure never produces it.
\* ------------------------------------------------------------------------
NormalizationError ==
  [isError |-> TRUE,
   content |-> [text |-> "Unable to normalize currency to XRPL 160-bit code.",
                status |-> 0, statusText |-> "", body |-> Null]]

C23_NormalizationErrorBeforeAnyCall ==
  \A i \in Inv :
    tool[i] = "token_overview" =>
      /\ returned[i] = <<NormalizationError>> <=> currencyTo160Hex(args[i].currency) = NoString
      /\ currencyTo160Hex(args[i].currency) = NoString =>
           /\ Done(i)
           /\ log[i] = <<>>
           /\ inflight[i] = {}

\* A currency of 21 letters, refused with nothing sent; the error results of
\* the other invocations come from book_offers.
C23_Witness ==
  \E i \in Inv :
    /\ tool[i] = "token_overview"
    /\ Len(args[i].currency) = CurrencyBytes + 1
    /\ returned[i] = <<NormalizationError>>
    /\ log[i] = <<>>

\* ------------------------------------------------------------------------
\* C24 In token_overview and market_snapshot, when book_offers succeeds and
\*     amm_info fails, the tool returns an Envelope whose amm field is null,
\*     and the fields derived from book_offers are what the book_offers
\*     response gives.
\* ------------------------------------------------------------------------
BookRows(i) ==
  LET b == Received(i, RpcBookOffers) IN IF b.kind = "obj" THEN b.rows ELSE 0

C24_AmmFailureGivesNullAmm ==
  \A i \in Inv :
    (/\ tool[i] \in {"token_overview", "market_snapshot"}
     /\ Done(i)
     /\ FailedCalls(i, {RpcBookOffers}) = {}
     /\ FailedCalls(i, {RpcAmmInfo}) # {}) =>
      /\ ReturnedEnvelope(i)
      /\ Result(i).content.data.amm = Null
      /\ tool[i] = "token_overview" => Result(i).content.data.hasBestAsk = (BookRows(i) > 0)
      /\ tool[i] = "market_snapshot" => Result(i).content.data.offerCount = BookRows(i)

\* ------------------------------------------------------------------------
\* C28 In tx_explain, when the tx call succeeded, the warning "LOS enriched
\*     transaction record not found; ..." is in the Envelope exactly when
\*     LOS supplied no record: the LOS call failed, returned an empty body,
\*     or returned an empty transactions list; it is absent whenever LOS
\*     returned a record.
\* ------------------------------------------------------------------------
NotFoundWarning ==
  "LOS enriched transaction record not found; classification is rippled-derived."

LosFailed(i) == FailedCalls(i, {LosTransactions}) # {}

\* LOS answered with a JSON object or an empty body (not with raw text).
LosAnsweredJson(i) ==
  \E k \in Completions(i) :
    /\ log[i][k].call = LosTransactions
    /\ ~Failed(log[i][k].resp)
    /\ log[i][k].resp.body.kind \in {"obj", "null"}

LosRecordCount(i) ==
  LET b == Received(i, LosTransactions) IN IF b.kind = "obj" THEN b.rows ELSE 0

C28_WarningIffNoLosRecord ==
  \A i \in Inv :
    (tool[i] = "tx_explain" /\ ReturnedEnvelope(i) /\ (LosFailed(i) \/ LosAnsweredJson(i))) =>
      (NotFoundWarning \in Range(Result(i).content.warnings) <=> LosRecordCount(i) = 0)

\* ------------------------------------------------------------------------
\* C29 resolve_entities is idempotent on its normalized value: for an input
\*     classified as tx_hash, account, token_id or domain_or_host, resolving
\*     the normalized value again gives the same type and the same
\*     normalized value.
\* ------------------------------------------------------------------------
ResolvedAgain(i) ==
  resolve_entities_start(Args(<<>>, FALSE, FALSE, EntityOf(i).normalized.s))
    .ret[1].content.data.entity

C29_ResolveIdempotent ==
  \A i \in Resolved :
    EntityOf(i).type \in {"tx_hash", "account", "token_id", "domain_or_host"} =>
      ResolvedAgain(i) = EntityOf(i)

\* ------------------------------------------------------------------------
\* C30 currencyTo160Hex returns null or exactly 40 upper-case hexadecimal
\*     digits, and maps its own output to itself, so the token id built from
\*     the output equals the token id built from the input (the one the
\*     Envelope of token_overview carries).
\* ------------------------------------------------------------------------
UpperHexDigits == (48..57) \cup (65..70)

C30_NormalizerIdempotent ==
  \A i \in TokenInvocations :
    LET c == CurrencyOf(i)
        h == currencyTo160Hex(c) IN
    h # NoString =>
      /\ Len(h) = 40
      /\ AllIn(h, UpperHexDigits)
      /\ currencyTo160Hex(h) = h
      /\ tokenIdFromIssuerCurrency(Issuer, h) = tokenIdFromIssuerCurrency(Issuer, c)
      /\ ReturnedEnvelope(i) => Result(i).content.data.tokenID = h \o <<46>> \o Issuer

\* A code that is not yet in its normal form (lower-case hex digits, or a
\* short name that is padded), carried through to the Envelope.
C30_Witness ==
  \E i, j \in TokenInvocations :
    /\ Len(CurrencyOf(i)) = 40
    /\ \E k \in 1..40 : CurrencyOf(i)[k] \in 97..102
    /\ currencyTo160Hex(CurrencyOf(i)) # NoString
    /\ currencyTo160Hex(CurrencyOf(i)) # CurrencyOf(i)
    /\ ReturnedEnvelope(j)
    /\ i = j

\* ------------------------------------------------------------------------
\* C21 The field search of the freshness probe looks for the ledger-index
\*     aliases at the top level of a response and inside the objects that
\*     are direct values of top-level keys only: a field two or more levels
\*     below the top is never returned as latestIndexedLedger.
\* ------------------------------------------------------------------------
ProbeFound(i) ==
  /\ tool[i] = "network_overview"
  /\ ReturnedEnvelope(i)
  /\ Result(i).content.data.losLatestIndexedLedger # NoNum

\* The response the probe took its value from: the last one it received.
ProbeSource(i) == log[i][Len(log[i])].resp.body

C21_SearchOneLevelDeep ==
  \A i \in Inv : ProbeFound(i) => ProbeSource(i).depth <= 1

\* ------------------------------------------------------------------------
\* C25 In tx_explain, for every transaction type (a missing one included):
\*     isDexTrade iff the type is exactly OfferCreate, AMMSwap or
\*     OfferCancel; isTransfer iff it is exactly Payment; isAmmRelated iff
\*     the type string starts with AMM.  The flags depend on the transaction
\*     of the ledger node only, whether or not the LOS call succeeded.
\* ------------------------------------------------------------------------
TypeReceived(i) == Received(i, RpcTx).TransactionType

IsTypeString(type, name) == type.t = "string" /\ type.s = name

C25_Classification ==
  \A i \in Inv :
    (tool[i] = "tx_explain" /\ ReturnedEnvelope(i)) =>
      LET type == TypeReceived(i)
          flags == Result(i).content.data.classification IN
      /\ flags.isDexTrade <=>
           \/ IsTypeString(type, <<79, 102, 102, 101, 114, 67, 114, 101, 97, 116, 101>>)
           \/ IsTypeString(type, <<65, 77, 77, 83, 119, 97, 112>>)
           \/ IsTypeString(type, <<79, 102, 102, 101, 114, 67, 97, 110, 99, 101, 108>>)
      /\ flags.isTransfer <=> IsTypeString(type, <<80, 97, 121, 109, 101, 110, 116>>)
      /\ flags.isAmmRelated <=>
           /\ type.t = "string"
           /\ Len(type.s) >= 3
           /\ type.s[1] = 65 /\ type.s[2] = 77 /\ type.s[3] = 77

\* "AMMSwap" classified as a DEX trade and AMM-related while the LOS call
\* had failed.
C25_Witness ==
  \E i \in Inv :
    /\ tool[i] = "tx_explain"
    /\ ReturnedEnvelope(i)
    /\ LosFailed(i)
    /\ IsTypeString(TypeReceived(i), <<65, 77, 77, 83, 119, 97, 112>>)
    /\ Result(i).content.data.classification
         = [isDexTrade |-> TRUE, isTransfer |-> FALSE, isAmmRelated |-> TRUE]

\* ------------------------------------------------------------------------
\* C26 In validator_health, validationsSigned and validationsMissed are the
\*     sums over the last 30 entries (fewer when the list is shorter) of the
\*     report list; uptimeScore is signed / (signed + missed) when that
\*     denominator is not zero and null exactly when it is zero; with
\*     non-negative counts a present uptimeScore lies between 0 and 1.
\* ------------------------------------------------------------------------
History(i) ==
  LET b == Received(i, VhsReports) IN IF b.kind = "obj" THEN b.list ELSE <<>>

Window(history) ==
  SubSeq(history, IF Len(history) > 30 THEN Len(history) - 29 ELSE 1, Len(history))

\* The count of a report: its own field, or the alias when that is 0 or
\* missing.
CountOf(own, alias) ==
  IF own.t = "number" /\ own.n # 0 THEN own.n ELSE NumberValue(alias)

NumericHistory(history) ==
  \A k \in 1..Len(history) :
    /\ IsNumberOrAbsent(history[k].signed) /\ IsNumberOrAbsent(history[k].validations_signed)
    /\ IsNumberOrAbsent(history[k].missed) /\ IsNumberOrAbsent(history[k].validations_missed)

RECURSIVE SignedSum(_)
SignedSum(history) ==
  IF history = <<>> THEN 0
  ELSE CountOf(Head(history).signed, Head(history).validations_signed)
         + SignedSum(Tail(history))

RECURSIVE MissedSum(_)
MissedSum(history) ==
  IF history = <<>> THEN 0
  ELSE CountOf(Head(history).missed, Head(history).validations_missed)
         + MissedSum(Tail(history))

NonNegativeCounts(history) ==
  \A k \in 1..Len(history) :
    /\ CountOf(history[k].signed, history[k].validations_signed) >= 0
    /\ CountOf(history[k].missed, history[k].validations_missed) >= 0

HealthEnvelopes == {i \in Inv : tool[i] = "validator_health" /\ ReturnedEnvelope(i)}

C26_UptimeScore ==
  \A i \in HealthEnvelopes :
    NumericHistory(History(i)) =>
      LET signed == SignedSum(Window(History(i)))
          missed == MissedSum(Window(History(i)))
          m == Result(i).content.data.metrics IN
      /\ m.validationsSigned = <<[k |-> "fin", n |-> signed, d |-> 1]>>
      /\ m.validationsMissed = <<[k |-> "fin", n |-> missed, d |-> 1]>>
      /\ m.uptimeScore = <<>> <=> signed + missed = 0
      /\ m.uptimeScore # <<>> =>
           /\ m.uptimeScore[1].k = "fin"
           /\ m.uptimeScore[1].n * (signed + missed) = signed * m.uptimeScore[1].d
           /\ NonNegativeCounts(Window(History(i))) =>
                /\ 0 <= m.uptimeScore[1].n
                /\ m.uptimeScore[1].n <= m.uptimeScore[1].d

\* ------------------------------------------------------------------------
\* C27 Body parsing of the upstream adapter: a JSON parse is attempted when
\*     the declared content type contains "json" or the body text is not
\*     empty and starts with '{' or '['; when the parse fails, or when
\*     neither condition holds, the body is the raw response text; so the
\*     body is always the parsed JSON value or the raw text.
\* ------------------------------------------------------------------------
\* "json"
DeclaresJson(contentType) ==
  \E k \in 1..(Len(contentType) - 3) :
    SubSeq(contentType, k, k + 3) = <<106, 115, 111, 110>>

ParseAttempted(resp) ==
  DeclaresJson(resp.contentType) \/ resp.text.first \in {"{", "["}

RawText(resp) == IF resp.text.first = "" THEN EmptyText ELSE SomeText

\* The body the adapter hands over (or puts into its failure).
AdapterBody(resp) ==
  LET r == fetchWithParse(resp) IN IF r.threw THEN r.msg.body ELSE r.val

C27_ParsedOrRawBody ==
  \A i \in Inv :
    \A k \in Completions(i) :
      LET resp == log[i][k].resp IN
      ~resp.net =>
        /\ (ParseAttempted(resp) /\ resp.text.json # <<>>)
             => AdapterBody(resp) = resp.text.json[1]
        /\ (~ParseAttempted(resp) \/ resp.text.json = <<>>)
             => AdapterBody(resp) = RawText(resp)
        /\ ReturnedError(i) => Result(i).content.body = AdapterBody(resp)

====
